---- MODULE Spec2Model ----
(***************************************************************************)
(* Model of src/gpu/ops/GrTextureOp.cpp: the TextureOp draw op (its two    *)
(* constructors, finalize, the destructor and onCombineIfPossible), the    *)
(* texture proxies' reference / pending-read counts it manipulates, and    *)
(* the op list's chaining of ops that report kMayChain.                    *)
(*                                                                         *)
(* Coordinates are fixed-point numbers in units of half a pixel (texel):   *)
(* the value 3 stands for 1.5.                                             *)
(***************************************************************************)
EXTENDS Integers, Sequences, FiniteSets, TLC

\* ------------------------------------------------------------------------
\* Bounds of the model
\* ------------------------------------------------------------------------
\* Largest number of quads a single op may accumulate through merges.
MaxQuads == 3
\* Largest 'cnt' handed to the batched factory.
MaxSetCnt == 2
\* Largest pending-read count of a proxy up to which a caller that breaks
\* the contract calls finalize() again.
MaxPendingReads == 4
\* Largest 'cnt' handed to the batched factory in the runs that only
\* construct ops.
MaxBatch == 3

\* The slots of the op memory pool.  combine is an operation on two ops, and
\* a third one is what the second may be chained to.
Ops == {1, 2, 3}
\* The slots used by runs that also finalize and destroy ops.
LifecycleOps == {1, 2}

\* ------------------------------------------------------------------------
\* Enumerations
\* ------------------------------------------------------------------------
kNearest == "kNearest"
kBilerp == "kBilerp"
kMipMap == "kMipMap"

kNone == "kNone"
kCoverage == "kCoverage"
kMSAA == "kMSAA"

kFast == "kFast_SrcRectConstraint"
kStrict == "kStrict_SrcRectConstraint"

kMerged == "kMerged"
kMayChain == "kMayChain"
kCannotCombine == "kCannotCombine"

\* GrQuadAAFlags: kLeft = 1, kTop = 2, kRight = 4, kBottom = 8.
AAFlagsNone == {}
AAFlagsAll == {"L", "T", "R", "B"}

\* ------------------------------------------------------------------------
\* Texture proxies (collaborator): identity, pixel config, texture type
\* ------------------------------------------------------------------------
Proxies == {1, 2, 3, 4}

uniqueID(p) == p
config(p) == IF p = 3 THEN "kAlpha_8" ELSE "kRGBA_8888"
textureType(p) == IF p = 4 THEN "kExternal" ELSE "k2D"
canSkipResourceAllocator(p) == p = 2

\* ------------------------------------------------------------------------
\* Color space transforms (collaborator).  0 is the null pointer; 1 and 2
\* are two distinct objects describing the same transform.
\* ------------------------------------------------------------------------
Xforms == {0, 1, 2}
XformSteps(x) == IF x = 0 THEN "null" ELSE "srgb-to-p3"

XformEquals(a, b) ==
    \/ a = b
    \/ a # 0 /\ b # 0 /\ XformSteps(a) = XformSteps(b)

\* ------------------------------------------------------------------------
\* Scalars, rects, matrices, quads
\* ------------------------------------------------------------------------
Min(a, b) == IF a <= b THEN a ELSE b
Max(a, b) == IF a >= b THEN a ELSE b

SkScalarIsInt(x) == x % 2 = 0
\* x - trunc(x), truncation toward zero
SkScalarFraction(x) == IF x >= 0 THEN x % 2 ELSE 0 - ((0 - x) % 2)

MakeLTRB(l, t, r, b) == [fLeft |-> l, fTop |-> t, fRight |-> r, fBottom |-> b]
RectWidth(rc) == rc.fRight - rc.fLeft
RectHeight(rc) == rc.fBottom - rc.fTop
MakeLargestInverted == MakeLTRB(1000, 1000, -1000, -1000)
joinPossiblyEmptyRect(a, b) ==
    MakeLTRB(Min(a.fLeft, b.fLeft), Min(a.fTop, b.fTop),
             Max(a.fRight, b.fRight), Max(a.fBottom, b.fBottom))

\* A view matrix [sx kx tx; ky sy ty; 0 0 p2]; tx, ty in half pixels.
MakeMatrix(sx, kx, tx, ky, sy, ty, p2) ==
    [sx |-> sx, kx |-> kx, tx |-> tx, ky |-> ky, sy |-> sy, ty |-> ty, p2 |-> p2]
MatrixI == MakeMatrix(1, 0, 0, 0, 1, 0, 1)
MatrixTranslateHalf == MakeMatrix(1, 0, 1, 0, 1, 0, 1)
MatrixSkew == MakeMatrix(1, 1, 0, 0, 1, 0, 1)
MatrixPersp == MakeMatrix(1, 0, 0, 0, 1, 0, 2)

hasPerspective(m) == m.p2 # 1
rectStaysRect(m) ==
    /\ ~hasPerspective(m)
    /\ \/ m.kx = 0 /\ m.ky = 0 /\ m.sx # 0 /\ m.sy # 0
       \/ m.sx = 0 /\ m.sy = 0 /\ m.kx # 0 /\ m.ky # 0

MapPoint(m, x, y) ==
    [x |-> m.sx * x + m.kx * y + m.tx,
     y |-> m.ky * x + m.sy * y + m.ty,
     w |-> m.p2]

\* Corners in tri-strip order: top-left, bottom-left, top-right, bottom-right.
GrPerspQuad(rc, m) ==
    << MapPoint(m, rc.fLeft, rc.fTop), MapPoint(m, rc.fLeft, rc.fBottom),
       MapPoint(m, rc.fRight, rc.fTop), MapPoint(m, rc.fRight, rc.fBottom) >>

SetMin(S) == CHOOSE v \in S : \A u \in S : v <= u
SetMax(S) == CHOOSE v \in S : \A u \in S : v >= u

\* Axis-aligned box of the perspective-divided corners.
QuadBounds(q) ==
    LET xs == { q[i].x \div q[i].w : i \in 1..4 }
        ys == { q[i].y \div q[i].w : i \in 1..4 }
    IN  MakeLTRB(SetMin(xs), SetMin(ys), SetMax(xs), SetMax(ys))

aa_has_effect_for_rect_stays_rect(quad) ==
    LET ql == quad[1].x
        qt == quad[1].y
        qr == quad[4].x
        qb == quad[4].y
    IN  ~SkScalarIsInt(ql) \/ ~SkScalarIsInt(qr) \/ ~SkScalarIsInt(qt) \/ ~SkScalarIsInt(qb)

filter_has_effect_for_rect_stays_rect(quad, srcRect) ==
    LET ql == quad[1].x
        qt == quad[1].y
        qr == quad[4].x
        qb == quad[4].y
    IN  \/ (qr - ql) # RectWidth(srcRect)
        \/ (qb - qt) # RectHeight(srcRect)
        \/ SkScalarFraction(ql) # SkScalarFraction(srcRect.fLeft)
        \/ SkScalarFraction(qt) # SkScalarFraction(srcRect.fTop)

\* TextureOp::Quad
MakeQuad(srcRect, quad, aaFlags, constraint, color) ==
    [fSrcRect |-> srcRect, fQuad |-> quad, fColor |-> color,
     fHasDomain |-> (constraint = kStrict), fAAFlags |-> aaFlags]

\* ------------------------------------------------------------------------
\* Draw requests issued by the recording layer
\* ------------------------------------------------------------------------
MakeDraw(proxy, filter, color, srcRect, dstRect, aaType, aaFlags, constraint, viewMatrix, textureColorSpaceXform, paintColorSpaceXform) ==
    [proxy |-> proxy, filter |-> filter, color |-> color, srcRect |-> srcRect,
     dstRect |-> dstRect, aaType |-> aaType, aaFlags |-> aaFlags,
     constraint |-> constraint, viewMatrix |-> viewMatrix,
     textureColorSpaceXform |-> textureColorSpaceXform,
     paintColorSpaceXform |-> paintColorSpaceXform]

BaseDraw ==
    MakeDraw(1, kBilerp, "red", MakeLTRB(0, 0, 4, 4), MakeLTRB(0, 0, 4, 4), kCoverage,
             AAFlagsAll, kFast, MatrixTranslateHalf, 1, 0)

\* The base request, every request that differs from it in one argument
\* (the sixteenth in color and destination rect, so that its quads can be
\* told apart from the base request's), an MSAA request without AA flags,
\* and requests on a second proxy that differ in one more argument.
DrawTable ==
    << BaseDraw,
       [BaseDraw EXCEPT !.proxy = 2],
       [BaseDraw EXCEPT !.proxy = 3],
       [BaseDraw EXCEPT !.proxy = 4],
       [BaseDraw EXCEPT !.filter = kNearest],
       [BaseDraw EXCEPT !.aaType = kNone],
       [BaseDraw EXCEPT !.aaType = kMSAA],
       [BaseDraw EXCEPT !.aaFlags = {"L", "R"}],
       [BaseDraw EXCEPT !.textureColorSpaceXform = 2],
       [BaseDraw EXCEPT !.textureColorSpaceXform = 0],
       [BaseDraw EXCEPT !.paintColorSpaceXform = 1],
       [BaseDraw EXCEPT !.viewMatrix = MatrixI],
       [BaseDraw EXCEPT !.viewMatrix = MatrixSkew],
       [BaseDraw EXCEPT !.viewMatrix = MatrixPersp],
       [BaseDraw EXCEPT !.constraint = kStrict],
       [BaseDraw EXCEPT !.color = "blue", !.dstRect = MakeLTRB(2, 2, 8, 6)],
       [BaseDraw EXCEPT !.aaType = kMSAA, !.aaFlags = AAFlagsNone],
       [BaseDraw EXCEPT !.proxy = 2, !.viewMatrix = MatrixPersp],
       [BaseDraw EXCEPT !.proxy = 2, !.constraint = kStrict],
       [BaseDraw EXCEPT !.proxy = 2, !.aaType = kNone] >>

DrawIds == 1..Len(DrawTable)

\* All but the requests on the second proxy that differ in one more argument
RecordedIds ==
    { k \in DrawIds : DrawTable[k].proxy # 2 \/ DrawTable[k] = [BaseDraw EXCEPT !.proxy = 2] }

\* ------------------------------------------------------------------------
\* TextureOp
\* ------------------------------------------------------------------------
NoBounds == MakeLTRB(0, 0, 0, 0)

\* A slot of the op memory pool that holds no op (never constructed, or
\* already destroyed).
BlankOp(status) ==
    [status |-> status, fQuads |-> << >>, fProxies |-> << >>,
     fTextureColorSpaceXform |-> 0, fPaintColorSpaceXform |-> 0,
     fFilter |-> kNearest, fAAType |-> kNone, fPerspective |-> FALSE,
     fDomain |-> FALSE, fFinalized |-> FALSE, fCanSkipAllocatorGather |-> FALSE,
     fBounds |-> NoBounds, fAABloat |-> FALSE]

\* Mutant: the edge flags are stored as they were asked for.
SwitchAAFlags_AsRequested(aaType, aaFlags) == aaFlags

\* switch (aaType) of the single-draw constructor: the edge flags the entry
\* is stored with
SwitchAAFlags(aaType, aaFlags) ==
    CASE aaType = kNone -> AAFlagsNone
      [] aaType = kCoverage -> aaFlags
      [] aaType = kMSAA -> AAFlagsAll

\* TextureOp(proxy, filter, color, srcRect, dstRect, aaType, aaFlags,
\*           constraint, viewMatrix, xforms)
TextureOpSingle(d) ==
    LET aaFlags0 == SwitchAAFlags(d.aaType, d.aaFlags)
        aaType0 == IF d.aaType = kCoverage /\ d.aaFlags = AAFlagsNone
                   THEN kNone ELSE d.aaType
        quad == GrPerspQuad(d.dstRect, d.viewMatrix)
        rsr == rectStaysRect(d.viewMatrix)
        dropAA == rsr /\ aaType0 = kCoverage /\ ~aa_has_effect_for_rect_stays_rect(quad)
        aaType1 == IF dropAA THEN kNone ELSE aaType0
        aaFlags1 == IF dropAA THEN AAFlagsNone ELSE aaFlags0
        filter1 == IF /\ rsr
                      /\ d.filter # kNearest
                      /\ ~filter_has_effect_for_rect_stays_rect(quad, d.srcRect)
                   THEN kNearest ELSE d.filter
        constraint1 == IF /\ d.constraint = kStrict
                          /\ filter1 = kNearest
                          /\ aaType1 # kCoverage
                       THEN kFast ELSE d.constraint
        draw == MakeQuad(d.srcRect, quad, aaFlags1, constraint1, d.color)
    IN  [status |-> "live",
         fQuads |-> << draw >>,
         fProxies |-> << [fProxy |-> d.proxy, fQuadCnt |-> 1] >>,
         fTextureColorSpaceXform |-> d.textureColorSpaceXform,
         fPaintColorSpaceXform |-> d.paintColorSpaceXform,
         fFilter |-> filter1,
         fAAType |-> aaType1,
         fPerspective |-> hasPerspective(d.viewMatrix),
         fDomain |-> draw.fHasDomain,
         fFinalized |-> FALSE,
         fCanSkipAllocatorGather |-> canSkipResourceAllocator(d.proxy),
         fBounds |-> QuadBounds(quad),
         fAABloat |-> (aaType1 = kCoverage)]

\* GrRenderTargetContext::TextureSetEntry
MakeSetEntry(d) ==
    [fProxy |-> d.proxy, fSrcRect |-> d.srcRect, fDstRect |-> d.dstRect,
     fAAFlags |-> d.aaFlags]

RECURSIVE JoinQuadBounds(_, _, _)
JoinQuadBounds(set, viewMatrix, n) ==
    IF n = 0 THEN MakeLargestInverted
    ELSE joinPossiblyEmptyRect(JoinQuadBounds(set, viewMatrix, n - 1),
                               QuadBounds(GrPerspQuad(set[n].fDstRect, viewMatrix)))

\* Mutant: consecutive entries on one proxy share a group.
RECURSIVE SetProxies_Coalesced(_)
SetProxies_Coalesced(set) ==
    IF Len(set) = 0 THEN << >>
    ELSE LET init == SetProxies_Coalesced(SubSeq(set, 1, Len(set) - 1))
             t == set[Len(set)].fProxy
         IN  IF Len(init) > 0 /\ init[Len(init)].fProxy = t
             THEN [init EXCEPT ![Len(init)].fQuadCnt = @ + 1]
             ELSE Append(init, [fProxy |-> t, fQuadCnt |-> 1])

\* Mutant: entries on one proxy share a group wherever they are in the set.
RECURSIVE SetProxies_ByTexture(_)
SetProxies_ByTexture(set) ==
    IF Len(set) = 0 THEN << >>
    ELSE LET init == SetProxies_ByTexture(SubSeq(set, 1, Len(set) - 1))
             t == set[Len(set)].fProxy
         IN  IF \E g \in 1..Len(init) : init[g].fProxy = t
             THEN [g \in 1..Len(init) |->
                      IF init[g].fProxy = t
                      THEN [init[g] EXCEPT !.fQuadCnt = @ + 1] ELSE init[g]]
             ELSE Append(init, [fProxy |-> t, fQuadCnt |-> 1])

\* fProxyCnt = cnt; fProxies[p].fProxy = set[p].fProxy; fProxies[p].fQuadCnt = 1
SetProxies(set) == [p \in 1..Len(set) |-> [fProxy |-> set[p].fProxy, fQuadCnt |-> 1]]

\* TextureOp(set, cnt, filter, color, aaType, viewMatrix, xforms)
TextureOpSet(set, filter, color, aaType, viewMatrix, texXform, paintXform) ==
    LET cnt == Len(set)
        rsr == rectStaysRect(viewMatrix)
        quadOf(p) == GrPerspQuad(set[p].fDstRect, viewMatrix)
        aaFlagsOf(p) ==
            CASE aaType = kNone -> AAFlagsNone
              [] aaType = kCoverage ->
                    IF /\ rsr
                       /\ set[p].fAAFlags # AAFlagsNone
                       /\ ~aa_has_effect_for_rect_stays_rect(quadOf(p))
                    THEN AAFlagsNone ELSE set[p].fAAFlags
              [] aaType = kMSAA -> AAFlagsAll
        needAA == \E p \in 1..cnt : set[p].fAAFlags # AAFlagsNone
        mustFilter ==
            /\ filter # kNearest
            /\ \E p \in 1..cnt :
                  ~rsr \/ filter_has_effect_for_rect_stays_rect(quadOf(p), set[p].fSrcRect)
        aaType1 == IF needAA THEN aaType ELSE kNone
    IN  [status |-> "live",
         fQuads |-> [p \in 1..cnt |->
                        MakeQuad(set[p].fSrcRect, quadOf(p), aaFlagsOf(p), kFast, color)],
         fProxies |-> SetProxies(set),
         fTextureColorSpaceXform |-> texXform,
         fPaintColorSpaceXform |-> paintXform,
         fFilter |-> IF mustFilter THEN filter ELSE kNearest,
         fAAType |-> aaType1,
         fPerspective |-> hasPerspective(viewMatrix),
         fDomain |-> FALSE,
         fFinalized |-> FALSE,
         fCanSkipAllocatorGather |->
             \A p \in 1..cnt : canSkipResourceAllocator(set[p].fProxy),
         fBounds |-> JoinQuadBounds(set, viewMatrix, cnt),
         fAABloat |-> (aaType1 = kCoverage)]

\* ------------------------------------------------------------------------
\* Floating point values of the tessellation code, as exact fractions n/d
\* (d > 0, in lowest terms), and Sk4f vectors of four of them (lanes 1..4)
\* ------------------------------------------------------------------------
\* F of the value of v, with v evaluated once
WithValue(v, F(_)) == CHOOSE r \in { F(x) : x \in { v } } : TRUE

Abs(x) == IF x < 0 THEN 0 - x ELSE x

RECURSIVE GCD(_, _)
GCD(a, b) == IF b = 0 THEN a ELSE WithValue(a % b, LAMBDA r : GCD(b, r))

Rat(n, d) ==
    WithValue(IF d < 0 THEN << 0 - n, 0 - d >> ELSE << n, d >>, LAMBDA p :
        WithValue(GCD(Abs(p[1]), p[2]), LAMBDA g : [n |-> p[1] \div g, d |-> p[2] \div g]))

RInt(i) == [n |-> i, d |-> 1]
RHalf == [n |-> 1, d |-> 2]
RAdd(a, b) ==
    WithValue(<< a, b >>, LAMBDA p : Rat(p[1].n * p[2].d + p[2].n * p[1].d, p[1].d * p[2].d))
RNeg(a) == WithValue(a, LAMBDA p : [n |-> 0 - p.n, d |-> p.d])
RSub(a, b) == RAdd(a, RNeg(b))
RMul(a, b) == WithValue(<< a, b >>, LAMBDA p : Rat(p[1].n * p[2].n, p[1].d * p[2].d))
RDiv(a, b) == WithValue(<< a, b >>, LAMBDA p : Rat(p[1].n * p[2].d, p[1].d * p[2].n))
RLt(a, b) == WithValue(<< a, b >>, LAMBDA p : p[1].n * p[2].d < p[2].n * p[1].d)
RLe(a, b) == WithValue(<< a, b >>, LAMBDA p : p[1].n * p[2].d <= p[2].n * p[1].d)

\* The largest r in lo..hi with r * r <= n
RECURSIVE SqrtSearch(_, _, _)
SqrtSearch(n, lo, hi) ==
    IF lo >= hi THEN lo
    ELSE WithValue((lo + hi + 1) \div 2, LAMBDA mid :
             IF mid <= n \div mid THEN SqrtSearch(n, mid, hi) ELSE SqrtSearch(n, lo, mid - 1))

\* Square root of a perfect square.
ISqrt(n) == WithValue(n, LAMBDA m : SqrtSearch(m, 0, m))
IsSquare(n) == WithValue(ISqrt(n), LAMBDA r : r * r = n)
RIsSquare(a) == WithValue(a, LAMBDA p : p.n >= 0 /\ IsSquare(p.n) /\ IsSquare(p.d))
\* sqrt(a) and 1 / sqrt(a), for a > 0 a fraction of perfect squares
RSqrt(a) == WithValue(a, LAMBDA p : Rat(ISqrt(p.n), ISqrt(p.d)))
RRsqrt(a) == WithValue(a, LAMBDA p : Rat(ISqrt(p.d), ISqrt(p.n)))

Lanes == 1..4
\* The four lanes of f, as a tuple
Tup4(f(_)) == << f(1), f(2), f(3), f(4) >>
Sk4f(r) == WithValue(r, LAMBDA p : << p, p, p, p >>)
V4Add(u, v) == WithValue(<< u, v >>, LAMBDA p : Tup4(LAMBDA i : RAdd(p[1][i], p[2][i])))
V4Sub(u, v) == WithValue(<< u, v >>, LAMBDA p : Tup4(LAMBDA i : RSub(p[1][i], p[2][i])))
V4Mul(u, v) == WithValue(<< u, v >>, LAMBDA p : Tup4(LAMBDA i : RMul(p[1][i], p[2][i])))
V4Neg(u) == WithValue(u, LAMBDA p : Tup4(LAMBDA i : RNeg(p[i])))
V4Rsqrt(u) == WithValue(u, LAMBDA p : Tup4(LAMBDA i : RRsqrt(p[i])))

\* SkNx_shuffle<2, 0, 3, 1> and SkNx_shuffle<1, 3, 0, 2>
nextCW(v) == WithValue(v, LAMBDA p : << p[3], p[1], p[4], p[2] >>)
nextCCW(v) == WithValue(v, LAMBDA p : << p[2], p[4], p[1], p[3] >>)

\* ------------------------------------------------------------------------
\* compute_quad_edges_and_outset_vertices
\* ------------------------------------------------------------------------
\* Mutant: the mask's lanes follow the flags' bit order.
EdgeMask_FlagOrder(aaFlags) ==
    << IF "L" \in aaFlags THEN RInt(1) ELSE RInt(0),
       IF "T" \in aaFlags THEN RInt(1) ELSE RInt(0),
       IF "R" \in aaFlags THEN RInt(1) ELSE RInt(0),
       IF "B" \in aaFlags THEN RInt(1) ELSE RInt(0) >>

\* "This order is the same order the edges appear in xdiff/ydiff and
\* therefore as the edges in a/b/c."
EdgeMask(aaFlags) ==
    << IF "L" \in aaFlags THEN RInt(1) ELSE RInt(0),
       IF "B" \in aaFlags THEN RInt(1) ELSE RInt(0),
       IF "T" \in aaFlags THEN RInt(1) ELSE RInt(0),
       IF "R" \in aaFlags THEN RInt(1) ELSE RInt(0) >>

\* Mutant: the normals are never turned around.
NormalsFaceOut_Never(test) == FALSE

\* (test < Sk4f(0)).anyTrue()
NormalsFaceOut(test) == \E i \in Lanes : RLt(test[i], RInt(0))

\* x, y: the corners; u, v: their texture coordinates (read and written
\* only if outsetCorners).  The result holds x, y, u, v as the function
\* leaves them and the edge equations a, b, c it writes.
compute_quad_edges_and_outset_vertices(aaFlags, x, y, outsetCorners, u, v) ==
    WithValue([x |-> x, y |-> y, u |-> u, v |-> v,
               xnext |-> nextCCW(x), ynext |-> nextCCW(y)], LAMBDA p :
    WithValue([xdiff |-> V4Sub(p.xnext, p.x), ydiff |-> V4Sub(p.ynext, p.y)], LAMBDA d0 :
    WithValue(V4Rsqrt(V4Add(V4Mul(d0.xdiff, d0.xdiff), V4Mul(d0.ydiff, d0.ydiff))),
              LAMBDA invLengths :
    WithValue([xdiff |-> V4Mul(d0.xdiff, invLengths),
               ydiff |-> V4Mul(d0.ydiff, invLengths),
               c |-> V4Mul(V4Sub(V4Mul(p.xnext, p.y), V4Mul(p.ynext, p.x)), invLengths)],
              LAMBDA e :
    WithValue(NormalsFaceOut(V4Add(V4Mul(e.ydiff, nextCW(p.x)),
                                   V4Add(V4Mul(V4Neg(e.xdiff), nextCW(p.y)), e.c))),
              LAMBDA flip :
    WithValue([a |-> IF flip THEN V4Neg(e.ydiff) ELSE e.ydiff,
               b |-> IF flip THEN e.xdiff ELSE V4Neg(e.xdiff),
               c |-> V4Add(V4Add(IF flip THEN V4Neg(e.c) ELSE e.c, Sk4f(RHalf)),
                           IF aaFlags # AAFlagsAll
                           THEN V4Sub(Sk4f(RInt(1)), EdgeMask(aaFlags))
                           ELSE Sk4f(RInt(0))),
               \* 0.5 * mask; the branch taken for kAll uses 0.5 in every lane
               mask |-> IF aaFlags # AAFlagsAll
                        THEN V4Mul(EdgeMask(aaFlags), Sk4f(RHalf))
                        ELSE Sk4f(RHalf)],
              LAMBDA eq :
    WithValue([maskCW |-> nextCW(eq.mask),
               tCW |-> V4Mul(nextCW(eq.mask), invLengths),
               t |-> V4Mul(eq.mask, nextCW(invLengths)),
               udiff |-> V4Sub(nextCCW(p.u), p.u),
               vdiff |-> V4Sub(nextCCW(p.v), p.v)],
              LAMBDA o :
        LET outset(q, qdiff, wCW, w) ==
                V4Add(q, V4Add(V4Mul(wCW, V4Neg(qdiff)), V4Mul(w, nextCW(qdiff))))
        IN  [a |-> eq.a, b |-> eq.b, c |-> eq.c,
             x |-> IF outsetCorners THEN outset(p.x, e.xdiff, o.maskCW, eq.mask) ELSE p.x,
             y |-> IF outsetCorners THEN outset(p.y, e.ydiff, o.maskCW, eq.mask) ELSE p.y,
             u |-> IF outsetCorners THEN outset(p.u, o.udiff, o.tCW, o.t) ELSE p.u,
             v |-> IF outsetCorners THEN outset(p.v, o.vdiff, o.tCW, o.t) ELSE p.v])))))))

\* ------------------------------------------------------------------------
\* tessellate_quad and the classes it is specialized with.  A vertex layout
\* V is [pos |-> "SkPoint" or "SkPoint3", domain |-> BOOLEAN, aa |-> BOOLEAN];
\* a vertex has the fields of its layout only.
\* ------------------------------------------------------------------------
kTopLeft == "kTopLeft_GrSurfaceOrigin"
kBottomLeft == "kBottomLeft_GrSurfaceOrigin"

\* A rect in half texels as a rect of floats, in texels.
RectToFloats(rc) ==
    MakeLTRB(Rat(rc.fLeft, 2), Rat(rc.fTop, 2), Rat(rc.fRight, 2), Rat(rc.fBottom, 2))

\* SkPointPriv::SetRectTriStrip
SetRectTriStrip(rc) ==
    << << rc.fLeft, rc.fTop >>, << rc.fLeft, rc.fBottom >>,
       << rc.fRight, rc.fTop >>, << rc.fRight, rc.fBottom >> >>

\* quad.x(i), quad.y(i), quad.w(i) as floats, in pixels
QuadX(q) == [i \in Lanes |-> Rat(q[i].x, 2)]
QuadY(q) == [i \in Lanes |-> Rat(q[i].y, 2)]
QuadW(q) == [i \in Lanes |-> RInt(q[i].w)]

\* The x or y of a quad's corners as an Sk4f, in pixels, after the divide by
\* w (quad.x4f() * quad.iw4f()).
QuadX2d(q) == [i \in Lanes |-> Rat(q[i].x, 2 * q[i].w)]
QuadY2d(q) == [i \in Lanes |-> Rat(q[i].y, 2 * q[i].w)]

\* Mutant: the edges written without AA flags are all zero.
InertEdges_Zero == [j \in Lanes |-> << RInt(0), RInt(0), RInt(0) >>]

\* The fEdges written for a quad without AA flags whose w are all 1
InertEdges == [j \in Lanes |-> << RInt(0), RInt(0), RInt(1) >>]

\* VertexAAHandler<V, GrAA::kNo, SkPoint> and <V, GrAA::kNo, SkPoint3>:
\* positions, texture coordinates (and no edges) of the four vertices.
AssignNoAA(pos, quad, texRect) ==
    [i \in Lanes |->
        [fPosition |-> IF pos = "SkPoint"
                       THEN << QuadX(quad)[i], QuadY(quad)[i] >>
                       ELSE << QuadX(quad)[i], QuadY(quad)[i], QuadW(quad)[i] >>,
         fTextureCoords |-> SetRectTriStrip(texRect)[i]]]

\* VertexAAHandler<V, GrAA::kYes, SkPoint>
AssignAA2D(quad, aaFlags, texRect) ==
    IF aaFlags = AAFlagsNone
    THEN [i \in Lanes |->
             [fPosition |-> << QuadX(quad)[i], QuadY(quad)[i] >>,
              fTextureCoords |-> SetRectTriStrip(texRect)[i],
              fEdges |-> InertEdges]]
    ELSE WithValue(compute_quad_edges_and_outset_vertices(
                       aaFlags, QuadX(quad), QuadY(quad), TRUE,
                       << texRect.fLeft, texRect.fLeft, texRect.fRight, texRect.fRight >>,
                       << texRect.fTop, texRect.fBottom, texRect.fTop, texRect.fBottom >>),
                   LAMBDA e :
             [i \in Lanes |->
                 [fPosition |-> << e.x[i], e.y[i] >>,
                  fTextureCoords |-> << e.u[i], e.v[i] >>,
                  fEdges |-> [j \in Lanes |-> << e.a[j], e.b[j], e.c[j] >>]]])

\* One of the two passes of VertexAAHandler<V, GrAA::kYes, SkPoint3>, which
\* move the corners away from their opposites: opp names the opposite of
\* each corner, from and to the ends of the two edges the corners are
\* moved along, spread the edge of each corner, mask the corners to move.
PerspOutsetPass(st, opp, from, to, spread, mask) ==
    WithValue(st, LAMBDA p :
    WithValue([x |-> Tup4(LAMBDA i : p.x[opp[i]]), y |-> Tup4(LAMBDA i : p.y[opp[i]]),
               w |-> Tup4(LAMBDA i : p.w[opp[i]]), u |-> Tup4(LAMBDA i : p.u[opp[i]]),
               v |-> Tup4(LAMBDA i : p.v[opp[i]])], LAMBDA op :
    WithValue([vx |-> << RSub(p.x2d[to[1]], p.x2d[from[1]]),
                         RSub(p.x2d[to[2]], p.x2d[from[2]]) >>,
               vy |-> << RSub(p.y2d[to[1]], p.y2d[from[1]]),
                         RSub(p.y2d[to[2]], p.y2d[from[2]]) >>], LAMBDA e :
    WithValue(<< RSqrt(RAdd(RMul(e.vx[1], e.vx[1]), RMul(e.vy[1], e.vy[1]))),
                 RSqrt(RAdd(RMul(e.vx[2], e.vx[2]), RMul(e.vy[2], e.vy[2]))) >>, LAMBDA len :
    WithValue(Tup4(LAMBDA i : RDiv(RAdd(len[spread[i]], RHalf), len[spread[i]])), LAMBDA s :
    WithValue(V4Mul(s, op.w), LAMBDA sOpW :
    WithValue(Tup4(LAMBDA i :
                  RDiv(sOpW[i], RAdd(sOpW[i], RMul(RSub(RInt(1), s[i]), p.w[i])))),
              LAMBDA t0 :
    WithValue(V4Add(V4Mul(t0, mask), V4Sub(Sk4f(RInt(1)), mask)), LAMBDA t :
        LET lerp(a, opA) == V4Add(opA, V4Mul(t, V4Sub(a, opA)))
        IN  [x |-> lerp(p.x, op.x), y |-> lerp(p.y, op.y), w |-> lerp(p.w, op.w),
             u |-> lerp(p.u, op.u), v |-> lerp(p.v, op.v),
             x2d |-> p.x2d, y2d |-> p.y2d]))))))))

\* iw = w.invert(); x2d = x * iw; y2d = y * iw
Refresh2d(st) ==
    WithValue(st, LAMBDA p :
        [x |-> p.x, y |-> p.y, w |-> p.w, u |-> p.u, v |-> p.v,
         x2d |-> Tup4(LAMBDA i : RDiv(p.x[i], p.w[i])),
         y2d |-> Tup4(LAMBDA i : RDiv(p.y[i], p.w[i]))])

FlagMask(aaFlags, flagOfLane) ==
    Tup4(LAMBDA i : IF flagOfLane[i] \in aaFlags THEN RInt(1) ELSE RInt(0))

\* "Outset left and/or right edges": the pass over the left and right edges
OutsetLeftRight(st, aaFlags) ==
    IF aaFlags \cap {"L", "R"} # {}
    THEN PerspOutsetPass(st, << 3, 4, 1, 2 >>, << 1, 2 >>, << 3, 4 >>, << 1, 2, 1, 2 >>,
                         FlagMask(aaFlags, << "L", "L", "R", "R" >>))
    ELSE st

\* "Update the 2D points for the top/bottom calculation."
RefreshBetweenPasses(st, aaFlags) ==
    IF aaFlags \cap {"L", "R"} # {} /\ aaFlags \cap {"T", "B"} # {}
    THEN Refresh2d(st)
    ELSE st

\* The pass over the top and bottom edges
OutsetTopBottom(st, aaFlags) ==
    IF aaFlags \cap {"T", "B"} # {}
    THEN PerspOutsetPass(st, << 2, 1, 4, 3 >>, << 1, 3 >>, << 2, 4 >>, << 1, 1, 2, 2 >>,
                         FlagMask(aaFlags, << "T", "B", "T", "B" >>))
    ELSE st

PerspStart(quad, texRect) ==
    [x |-> QuadX(quad), y |-> QuadY(quad), w |-> QuadW(quad),
     u |-> << texRect.fLeft, texRect.fLeft, texRect.fRight, texRect.fRight >>,
     v |-> << texRect.fTop, texRect.fBottom, texRect.fTop, texRect.fBottom >>,
     x2d |-> QuadX2d(quad), y2d |-> QuadY2d(quad)]

PerspOutset(quad, aaFlags, texRect) ==
    OutsetTopBottom(
        RefreshBetweenPasses(OutsetLeftRight(PerspStart(quad, texRect), aaFlags), aaFlags),
        aaFlags)

\* The edges whose lengths the two passes take have rational lengths, so
\* that the square roots are exact.
ExactPass(st, from, to) ==
    \A k \in 1..2 :
        LET vx == RSub(st.x2d[to[k]], st.x2d[from[k]])
            vy == RSub(st.y2d[to[k]], st.y2d[from[k]])
        IN  RIsSquare(RAdd(RMul(vx, vx), RMul(vy, vy)))

PerspExact(quad, aaFlags) ==
    LET z == MakeLTRB(RInt(0), RInt(0), RInt(1), RInt(1))
    IN  /\ aaFlags \cap {"L", "R"} # {} => ExactPass(PerspStart(quad, z), << 1, 2 >>, << 3, 4 >>)
        /\ aaFlags \cap {"T", "B"} # {} =>
               ExactPass(RefreshBetweenPasses(OutsetLeftRight(PerspStart(quad, z), aaFlags),
                                              aaFlags),
                         << 1, 3 >>, << 2, 4 >>)

\* VertexAAHandler<V, GrAA::kYes, SkPoint3>
AssignAA3D(quad, aaFlags, texRect) ==
    IF (\A i \in Lanes : quad[i].w = 1) /\ aaFlags = AAFlagsNone
    THEN [i \in Lanes |->
             [fPosition |-> << QuadX(quad)[i], QuadY(quad)[i], QuadW(quad)[i] >>,
              fTextureCoords |-> SetRectTriStrip(texRect)[i],
              fEdges |-> InertEdges]]
    ELSE WithValue(compute_quad_edges_and_outset_vertices(
                       aaFlags, QuadX2d(quad), QuadY2d(quad), FALSE,
                       PerspStart(quad, texRect).u, PerspStart(quad, texRect).v),
                   LAMBDA e :
         WithValue(PerspOutset(quad, aaFlags, texRect), LAMBDA out :
             [i \in Lanes |->
                 [fPosition |-> << out.x[i], out.y[i], out.w[i] >>,
                  fTextureCoords |-> << out.u[i], out.v[i] >>,
                  fEdges |-> [j \in Lanes |-> << e.a[j], e.b[j], e.c[j] >>]]]))

\* Mutant: the rect is flipped but its top and bottom are not exchanged.
FlipY_NoSwap(rc) ==
    MakeLTRB(rc.fLeft, RSub(RInt(1), rc.fTop), rc.fRight, RSub(RInt(1), rc.fBottom))

\* SkNx_shuffle<0, 3, 2, 1>(kMul * ltrb + kAdd)
FlipY(rc) ==
    MakeLTRB(rc.fLeft, RSub(RInt(1), rc.fBottom), rc.fRight, RSub(RInt(1), rc.fTop))

\* Mutant: every edge is moved in by half a texel, however small the rect.
InsetForBilerp_Always(rc) ==
    MakeLTRB(RAdd(rc.fLeft, RHalf), RAdd(rc.fTop, RHalf),
           RSub(rc.fRight, RHalf), RSub(rc.fBottom, RHalf))

\* ltrb = (whwh < 1.f).thenElse(c, ltrb + kOffsets)
InsetForBilerp(rc) ==
    WithValue([w |-> RSub(rc.fRight, rc.fLeft), h |-> RSub(rc.fBottom, rc.fTop),
               cx |-> RMul(RAdd(rc.fRight, rc.fLeft), RHalf),
               cy |-> RMul(RAdd(rc.fBottom, rc.fTop), RHalf)], LAMBDA p :
        LET absw == IF RLt(p.w, RInt(0)) THEN RNeg(p.w) ELSE p.w
            absh == IF RLt(p.h, RInt(0)) THEN RNeg(p.h) ELSE p.h
            narrow == RLt(absw, RInt(1))
            low == RLt(absh, RInt(1))
        IN  MakeLTRB(IF narrow THEN p.cx ELSE RAdd(rc.fLeft, RHalf),
                     IF low THEN p.cy ELSE RAdd(rc.fTop, RHalf),
                     IF narrow THEN p.cx ELSE RSub(rc.fRight, RHalf),
                     IF low THEN p.cy ELSE RSub(rc.fBottom, RHalf)))

kLargeRect == MakeLTRB(RInt(-2), RInt(-2), RInt(2), RInt(2))

\* DomainAssigner<V, Domain::kYes>::Assign: the rect written to
\* fTextureDomain of the four vertices.
DomainRect(domain, filter, srcRect, origin, iw, ih) ==
    IF domain
    THEN WithValue(RectToFloats(srcRect), LAMBDA ltrb0 :
         WithValue(IF filter = kBilerp THEN InsetForBilerp(ltrb0) ELSE ltrb0, LAMBDA ltrb1 :
         WithValue(MakeLTRB(RMul(ltrb1.fLeft, iw), RMul(ltrb1.fTop, ih),
                            RMul(ltrb1.fRight, iw), RMul(ltrb1.fBottom, ih)), LAMBDA ltrb2 :
             IF origin = kBottomLeft THEN FlipY(ltrb2) ELSE ltrb2)))
    ELSE kLargeRect

\* Mutant: the texture rect is not flipped for bottom-up textures.
TexRectOf_NoFlip(srcRect, origin, iw, ih) ==
    LET f == RectToFloats(srcRect)
    IN  MakeLTRB(RMul(iw, f.fLeft), RMul(ih, f.fTop), RMul(iw, f.fRight), RMul(ih, f.fBottom))

\* The texRect tessellate_quad computes of the source rect.
TexRectOf(srcRect, origin, iw, ih) ==
    LET f == RectToFloats(srcRect)
        top == RMul(ih, f.fTop)
        bottom == RMul(ih, f.fBottom)
    IN  MakeLTRB(RMul(iw, f.fLeft),
               IF origin = kBottomLeft THEN RSub(RInt(1), top) ELSE top,
               RMul(iw, f.fRight),
               IF origin = kBottomLeft THEN RSub(RInt(1), bottom) ELSE bottom)

\* tessellate_quad<V>: the four vertices it writes.
tessellate_quad(V, devQuad, aaFlags, srcRect, color, origin, filter, iw, ih, domain) ==
    WithValue(TexRectOf(srcRect, origin, iw, ih), LAMBDA texRect :
    WithValue(IF ~V.aa THEN AssignNoAA(V.pos, devQuad, texRect)
              ELSE IF V.pos = "SkPoint" THEN AssignAA2D(devQuad, aaFlags, texRect)
              ELSE AssignAA3D(devQuad, aaFlags, texRect), LAMBDA placed :
    WithValue(DomainRect(domain, filter, srcRect, origin, iw, ih), LAMBDA domainRect :
        Tup4(LAMBDA i :
            IF V.domain
            THEN placed[i] @@ [fColor |-> color, fTextureDomain |-> domainRect]
            ELSE placed[i] @@ [fColor |-> color]))))

\* ------------------------------------------------------------------------
\* State
\* ------------------------------------------------------------------------
VARIABLES
    ops,            \* the op instances of the memory pool, by slot
    refCnt,         \* per proxy: plain references held for ops
    pendingReads,   \* per proxy: pending-read registrations
    fNextInChain,   \* per op: the next op of its chain, 0 if none
    pc,             \* position inside a running finalize(), op = 0 if none runs
    last,           \* the last combine call: its ops, what the caps passed to it
                    \* say of dynamicStateArrayGeometryProcessorTextureSupport(),
                    \* and the result it returned
    draws,          \* the two kinds of draw request the recording layer issues
    debugBuild,     \* SkASSERT is compiled in
    aborted,        \* an SkASSERT has failed and ended the process
    flushed,        \* what the last onPrepareDraws() did with its target
    call            \* a direct call of one of the static tessellation functions:
                    \* its arguments and, once it has returned, what it wrote

vars == << ops, refCnt, pendingReads, fNextInChain, pc, last, draws, debugBuild,
           aborted, flushed, call >>

Idle == [op |-> 0, p |-> 0, i |-> 0]
NoResult == [this |-> 0, that |-> 0, caps |-> FALSE, result |-> "none"]
\* Nothing has been prepared: no op's onPrepareDraws() has run, nothing was
\* tessellated, handed to target->draw() or written by SkDebugf, and the
\* target has refused nothing.
NoFlush ==
    [prepared |-> {}, tess |-> << >>, draws |-> << >>, log |-> << >>, failures |-> << >>,
     allocs |-> << >>]
NoCall == [fn |-> "none"]

Init ==
    /\ ops = [o \in Ops |-> BlankOp("unborn")]
    /\ refCnt = [t \in Proxies |-> 0]
    /\ pendingReads = [t \in Proxies |-> 0]
    /\ fNextInChain = [o \in Ops |-> 0]
    /\ pc = Idle
    /\ last = NoResult
    /\ draws \in { d \in RecordedIds \X RecordedIds : d[1] <= d[2] }
    /\ debugBuild = TRUE
    /\ aborted = FALSE
    /\ flushed = NoFlush
    /\ call = NoCall

\* One of the two kinds of draw request is the base request.
InitRecord ==
    /\ ops = [o \in Ops |-> BlankOp("unborn")]
    /\ refCnt = [t \in Proxies |-> 0]
    /\ pendingReads = [t \in Proxies |-> 0]
    /\ fNextInChain = [o \in Ops |-> 0]
    /\ pc = Idle
    /\ last = NoResult
    /\ draws \in { d \in RecordedIds \X RecordedIds : d[1] = 1 }
    /\ debugBuild = TRUE
    /\ aborted = FALSE
    /\ flushed = NoFlush
    /\ call = NoCall

\* Either build (what an SkASSERT does differs between them); one of the two
\* kinds of draw request is the base request.
InitMisuse ==
    /\ ops = [o \in Ops |-> BlankOp("unborn")]
    /\ refCnt = [t \in Proxies |-> 0]
    /\ pendingReads = [t \in Proxies |-> 0]
    /\ fNextInChain = [o \in Ops |-> 0]
    /\ pc = Idle
    /\ last = NoResult
    /\ draws \in { d \in RecordedIds \X RecordedIds : d[1] = 1 }
    /\ debugBuild \in BOOLEAN
    /\ aborted = FALSE
    /\ flushed = NoFlush
    /\ call = NoCall

Live(o) == ops[o].status = "live"
\* No SkASSERT has failed, no finalize() is under way and the op list is not
\* holding a result of combine it has yet to act on.
Running == ~aborted /\ pc = Idle /\ last = NoResult

\* GrOp::isChained
isChained(o) == fNextInChain[o] # 0 \/ \E x \in Ops : fNextInChain[x] = o

\* The pool hands out its slots in order.
NextSlot(o) ==
    /\ ops[o].status = "unborn"
    /\ \A x \in Ops : x < o => ops[x].status # "unborn"

\* Number of proxy groups of op record 'op' that reference proxy t.
GroupsOn(op, t) == Cardinality({ p \in DOMAIN op.fProxies : op.fProxies[p].fProxy = t })

\* ------------------------------------------------------------------------
\* Construction
\* ------------------------------------------------------------------------
\* TextureOp::Make (single draw): the caller's reference moves into the op.
MakeSingle(o, k) ==
    /\ Running
    /\ NextSlot(o)
    /\ LET d == DrawTable[draws[k]]
       IN  /\ ops' = [ops EXCEPT ![o] = TextureOpSingle(d)]
           /\ refCnt' = [refCnt EXCEPT ![d.proxy] = @ + 1]
    /\ UNCHANGED << last, pendingReads, fNextInChain, pc, draws, debugBuild, flushed, call, aborted >>

SetIndexSeqs == UNION { [1..n -> 1..2] : n \in 1..MaxSetCnt }
BatchIndexSeqs == UNION { [1..n -> 1..2] : n \in 1..MaxBatch }

\* The set[] the factory is handed for the draw requests idx names.
SetOf(idx) == [p \in 1..Len(idx) |-> MakeSetEntry(DrawTable[draws[idx[p]]])]

\* TextureOp::Make (texture set): every entry's proxy is SkRef'ed.  The set's
\* entries are those of the draw requests idx names; the arguments the
\* whole set shares are those of the first.
MakeSet(o, idx) ==
    /\ Running
    /\ NextSlot(o)
    /\ LET d == DrawTable[draws[idx[1]]]
           set == SetOf(idx)
           op == TextureOpSet(set, d.filter, d.color, d.aaType, d.viewMatrix,
                              d.textureColorSpaceXform, d.paintColorSpaceXform)
       IN  \* SkASSERTed caller contract: one texture type and config per set
           /\ \A p \in 1..Len(set) :
                 /\ textureType(set[p].fProxy) = textureType(set[1].fProxy)
                 /\ config(set[p].fProxy) = config(set[1].fProxy)
           /\ ops' = [ops EXCEPT ![o] = op]
           /\ refCnt' = [t \in Proxies |-> refCnt[t] + GroupsOn(op, t)]
    /\ UNCHANGED << last, pendingReads, fNextInChain, pc, draws, debugBuild, flushed, call, aborted >>

\* ------------------------------------------------------------------------
\* finalize()
\* ------------------------------------------------------------------------
\* Mutant: the plain reference is dropped before the pending read is added.
FinalizeBody_UnrefFirst == << "unref", "addPendingRead" >>

\* The body of the loop over fProxies, in program order.
FinalizeBody == << "addPendingRead", "unref" >>

\* pc after statement pc.i of the loop body
FinalizeAdvance ==
    IF pc.i < Len(FinalizeBody) THEN [pc EXCEPT !.i = @ + 1]
    ELSE IF pc.p < Len(ops[pc.op].fProxies) THEN [pc EXCEPT !.p = @ + 1, !.i = 1]
    ELSE Idle

\* Mutant: finalize() asserts nothing.
FinalizeAsserts_Nothing(op) == TRUE

\* What finalize() asserts of the op on entry, in a build that asserts.
FinalizeAsserts(op) == ~op.fFinalized

\* SkASSERT(!fFinalized) fails
FinalizeAssert(o) ==
    /\ Running
    /\ Live(o)
    /\ debugBuild /\ ~FinalizeAsserts(ops[o])
    /\ aborted' = TRUE
    /\ UNCHANGED << ops, refCnt, pendingReads, fNextInChain, pc, last, draws, debugBuild, flushed, call >>

\* fFinalized = true; and entry into the loop over the proxies
FinalizeEnter(o) ==
    /\ Running
    /\ Live(o)
    /\ ~(debugBuild /\ ~FinalizeAsserts(ops[o]))
    /\ ops' = [ops EXCEPT ![o].fFinalized = TRUE]
    /\ pc' = [op |-> o, p |-> 1, i |-> 1]
    /\ UNCHANGED << last, refCnt, pendingReads, fNextInChain, draws, debugBuild, flushed, call, aborted >>

\* fProxies[p].fProxy->addPendingRead()
FinalizeAddPendingRead ==
    /\ ~aborted
    /\ pc.op # 0
    /\ FinalizeBody[pc.i] = "addPendingRead"
    /\ LET t == ops[pc.op].fProxies[pc.p].fProxy
       IN  pendingReads' = [pendingReads EXCEPT ![t] = @ + 1]
    /\ pc' = FinalizeAdvance
    /\ UNCHANGED << ops, refCnt, fNextInChain, last, draws, debugBuild, flushed, call, aborted >>

\* fProxies[p].fProxy->unref()
FinalizeUnref ==
    /\ ~aborted
    /\ pc.op # 0
    /\ FinalizeBody[pc.i] = "unref"
    /\ LET t == ops[pc.op].fProxies[pc.p].fProxy
       IN  refCnt' = [refCnt EXCEPT ![t] = @ - 1]
    /\ pc' = FinalizeAdvance
    /\ UNCHANGED << ops, pendingReads, fNextInChain, last, draws, debugBuild, flushed, call,
                    aborted >>

\* ------------------------------------------------------------------------
\* ~TextureOp()
\* ------------------------------------------------------------------------
\* The op list takes an op out of its chain before it deletes it.
Unlink(next, o) ==
    [x \in Ops |-> IF x = o THEN 0 ELSE IF next[x] = o THEN next[o] ELSE next[x]]

\* Mutant: the destructor does not look at fFinalized.
ReleasedByDestructor_AlwaysUnref(op) == "unref"

\* What the destructor releases for each proxy group of 'op'.
ReleasedByDestructor(op) == IF op.fFinalized THEN "completedRead" ELSE "unref"

Destroy(o) ==
    /\ Running
    /\ Live(o)
    /\ IF ReleasedByDestructor(ops[o]) = "completedRead"
       THEN /\ pendingReads' = [t \in Proxies |-> pendingReads[t] - GroupsOn(ops[o], t)]
            /\ UNCHANGED refCnt
       ELSE /\ refCnt' = [t \in Proxies |-> refCnt[t] - GroupsOn(ops[o], t)]
            /\ UNCHANGED pendingReads
    /\ ops' = [ops EXCEPT ![o] = BlankOp("destroyed")]
    /\ fNextInChain' = Unlink(fNextInChain, o)
    /\ UNCHANGED << last, pc, draws, debugBuild, flushed, call, aborted >>

\* ------------------------------------------------------------------------
\* onCombineIfPossible
\* ------------------------------------------------------------------------
\* Mutant: the paint-side transforms are not compared.
XformsMatch_TextureOnly(this, that) ==
    XformEquals(this.fTextureColorSpaceXform, that.fTextureColorSpaceXform)

\* Both color space transforms are equal by value.
XformsMatch(this, that) ==
    /\ XformEquals(this.fTextureColorSpaceXform, that.fTextureColorSpaceXform)
    /\ XformEquals(this.fPaintColorSpaceXform, that.fPaintColorSpaceXform)

\* Mutant: any op with AA may be upgraded to, not only one with kNone.
AATypesCompatible_AnyWithCoverage(this, that) ==
    \/ this.fAAType = that.fAAType
    \/ this.fAAType = kCoverage
    \/ that.fAAType = kCoverage

\* The AA types are the same, or one is kCoverage and the other kNone.
AATypesCompatible(this, that) ==
    \/ this.fAAType = that.fAAType
    \/ this.fAAType = kCoverage /\ that.fAAType = kNone
    \/ that.fAAType = kCoverage /\ this.fAAType = kNone

\* Mutant: the filters are not compared.
FiltersMatch_Any(this, that) == TRUE

\* fFilter == that->fFilter
FiltersMatch(this, that) == this.fFilter = that.fFilter

\* Mutant: a chained 'that' does not prevent the merge.
CannotMerge_IgnoresChain(this, that, thatIsChained) ==
    \/ Len(this.fProxies) > 1
    \/ Len(that.fProxies) > 1
    \/ uniqueID(this.fProxies[1].fProxy) # uniqueID(that.fProxies[1].fProxy)

\* "We can't merge across different proxies (and we're disallowed from
\* merging when 'that' is chained."
CannotMerge(this, that, thatIsChained) ==
    \/ Len(this.fProxies) > 1
    \/ Len(that.fProxies) > 1
    \/ uniqueID(this.fProxies[1].fProxy) # uniqueID(that.fProxies[1].fProxy)
    \/ thatIsChained

\* Mutant: the texture types are not compared.
CanChain_IgnoresTextureType(thisProxy, thatProxy, dynTexSupport) ==
    /\ config(thisProxy) = config(thatProxy)
    /\ dynTexSupport

\* "Check if we can be chained with 'that'."
CanChain(thisProxy, thatProxy, dynTexSupport) ==
    /\ config(thisProxy) = config(thatProxy)
    /\ textureType(thisProxy) = textureType(thatProxy)
    /\ dynTexSupport

\* Mutant: the AA type is not upgraded.
MergedOp_NoUpgrade(this, that) ==
    [this EXCEPT
        !.fProxies[1].fQuadCnt = @ + Len(that.fQuads),
        !.fQuads = @ \o that.fQuads,
        !.fBounds = joinPossiblyEmptyRect(@, that.fBounds),
        !.fAABloat = @ \/ that.fAABloat,
        !.fPerspective = @ \/ that.fPerspective,
        !.fDomain = @ \/ that.fDomain]

\* Mutant: the bounds are not joined.
MergedOp_NoJoinBounds(this, that) ==
    [this EXCEPT
        !.fProxies[1].fQuadCnt = @ + Len(that.fQuads),
        !.fQuads = @ \o that.fQuads,
        !.fPerspective = @ \/ that.fPerspective,
        !.fDomain = @ \/ that.fDomain,
        !.fAAType = IF this.fAAType # that.fAAType THEN kCoverage ELSE @]

\* Mutant: the domain flag of 'that' is not taken over.
MergedOp_KeepsDomain(this, that) ==
    [this EXCEPT
        !.fProxies[1].fQuadCnt = @ + Len(that.fQuads),
        !.fQuads = @ \o that.fQuads,
        !.fBounds = joinPossiblyEmptyRect(@, that.fBounds),
        !.fAABloat = @ \/ that.fAABloat,
        !.fPerspective = @ \/ that.fPerspective,
        !.fAAType = IF this.fAAType # that.fAAType THEN kCoverage ELSE @]

\* Mutant: the group's count is not raised by the entries taken over.
MergedOp_KeepsCount(this, that) ==
    [this EXCEPT
        !.fQuads = @ \o that.fQuads,
        !.fBounds = joinPossiblyEmptyRect(@, that.fBounds),
        !.fAABloat = @ \/ that.fAABloat,
        !.fPerspective = @ \/ that.fPerspective,
        !.fDomain = @ \/ that.fDomain,
        !.fAAType = IF this.fAAType # that.fAAType THEN kCoverage ELSE @]

\* 'this' after it has absorbed 'that'.
MergedOp(this, that) ==
    [this EXCEPT
        !.fProxies[1].fQuadCnt = @ + Len(that.fQuads),
        !.fQuads = @ \o that.fQuads,
        !.fBounds = joinPossiblyEmptyRect(@, that.fBounds),
        !.fAABloat = @ \/ that.fAABloat,
        !.fPerspective = @ \/ that.fPerspective,
        !.fDomain = @ \/ that.fDomain,
        !.fAAType = IF this.fAAType # that.fAAType THEN kCoverage ELSE @]

\* Mutant: an op that has been finalized refuses to combine.
CombineResultOf_OpenOnly(this, that, thatIsChained, dynTexSupport) ==
    IF this.fFinalized THEN kCannotCombine
    ELSE IF ~XformsMatch(this, that) THEN kCannotCombine
    ELSE IF ~AATypesCompatible(this, that) THEN kCannotCombine
    ELSE IF ~FiltersMatch(this, that) THEN kCannotCombine
    ELSE IF CannotMerge(this, that, thatIsChained)
    THEN IF CanChain(this.fProxies[1].fProxy, that.fProxies[1].fProxy, dynTexSupport)
         THEN kMayChain
         ELSE kCannotCombine
    ELSE kMerged

\* The value this->onCombineIfPossible(that, caps) returns.
CombineResultOf(this, that, thatIsChained, dynTexSupport) ==
    IF ~XformsMatch(this, that) THEN kCannotCombine
    ELSE IF ~AATypesCompatible(this, that) THEN kCannotCombine
    ELSE IF ~FiltersMatch(this, that) THEN kCannotCombine
    ELSE IF CannotMerge(this, that, thatIsChained)
    THEN IF CanChain(this.fProxies[1].fProxy, that.fProxies[1].fProxy, dynTexSupport)
         THEN kMayChain
         ELSE kCannotCombine
    ELSE kMerged

\* Mutant: the AA type is upgraded as soon as the AA types are found to
\* differ, before the checks that may still refuse.
onCombineIfPossible_EagerUpgrade(this, that, thatIsChained, dynTexSupport) ==
    LET result == CombineResultOf(this, that, thatIsChained, dynTexSupport)
        upgraded == IF /\ XformsMatch(this, that)
                       /\ AATypesCompatible(this, that)
                       /\ this.fAAType # that.fAAType
                    THEN [this EXCEPT !.fAAType = kCoverage] ELSE this
    IN  [result |-> result,
         op |-> IF result = kMerged THEN MergedOp(this, that) ELSE upgraded]

\* The result and the state of 'this' after this->onCombineIfPossible(that).
onCombineIfPossible(this, that, thatIsChained, dynTexSupport) ==
    LET result == CombineResultOf(this, that, thatIsChained, dynTexSupport)
    IN  [result |-> result,
         op |-> IF result = kMerged THEN MergedOp(this, that) ELSE this]

\* The op list calls a->combineIfPossible(b, caps).
Combine(a, b, caps) ==
    /\ Running
    /\ a # b /\ Live(a) /\ Live(b)
    /\ Len(ops[a].fQuads) + Len(ops[b].fQuads) <= MaxQuads
    /\ LET r == onCombineIfPossible(ops[a], ops[b], isChained(b), caps)
       IN  /\ ops' = [ops EXCEPT ![a] = r.op]
           /\ last' = [this |-> a, that |-> b, caps |-> caps, result |-> r.result]
    /\ UNCHANGED << refCnt, pendingReads, fNextInChain, pc, draws, debugBuild, flushed, call, aborted >>

\* The op list links b behind a after a reported kMayChain for b.
Chain(a, b) ==
    /\ ~aborted
    /\ last.this = a /\ last.that = b /\ last.result = kMayChain
    /\ fNextInChain[a] = 0
    /\ ~isChained(b)
    /\ fNextInChain' = [fNextInChain EXCEPT ![a] = b]
    /\ last' = NoResult
    /\ UNCHANGED << ops, refCnt, pendingReads, pc, draws, debugBuild, flushed, call, aborted >>

\* The op list goes on recording without linking the two ops.
Proceed ==
    /\ ~aborted
    /\ last # NoResult
    /\ last' = NoResult
    /\ UNCHANGED << ops, refCnt, pendingReads, fNextInChain, pc, draws, debugBuild, flushed, call,
                    aborted >>

\* ------------------------------------------------------------------------
\* dumpInfo()
\* ------------------------------------------------------------------------
\* The value of q when the inner loop reaches proxy group p of an op
RECURSIVE QuadsBefore(_, _)
QuadsBefore(fProxies, p) ==
    IF p = 1 THEN 0 ELSE QuadsBefore(fProxies, p - 1) + fProxies[p - 1].fQuadCnt

\* The quad lines dumpInfo() appends, in order: the proxy ID of the header
\* line they follow, the i they print and the q of the fQuads[q] they read.
dumpInfo(op) ==
    LET RECURSIVE From(_)
        From(p) ==
            IF p > Len(op.fProxies) THEN << >>
            ELSE [i \in 1..op.fProxies[p].fQuadCnt |->
                     [proxy |-> uniqueID(op.fProxies[p].fProxy), i |-> i - 1,
                      q |-> QuadsBefore(op.fProxies, p) + i - 1]]
                 \o From(p + 1)
    IN  From(1)

\* ------------------------------------------------------------------------
\* Direct calls of the static tessellation functions
\* ------------------------------------------------------------------------
\* A quad given by its corners (half pixels), in tri-strip order.
MakeCorners(tl, bl, tr, br) ==
    << [x |-> tl[1], y |-> tl[2], w |-> 1], [x |-> bl[1], y |-> bl[2], w |-> 1],
       [x |-> tr[1], y |-> tr[2], w |-> 1], [x |-> br[1], y |-> br[2], w |-> 1] >>

\* Convex quads whose edges have rational lengths: two upright rects, a
\* mirrored one (the other winding), a rotated one, a trapezoid as a
\* perspective matrix gives after the divide, its mirror image, and a
\* parallelogram as a matrix with skew gives.
QuadTable ==
    << GrPerspQuad(MakeLTRB(0, 0, 4, 4), MatrixTranslateHalf),
       GrPerspQuad(MakeLTRB(2, 2, 8, 6), MatrixI),
       GrPerspQuad(MakeLTRB(0, 0, 4, 4), MakeMatrix(-1, 0, 8, 0, 1, 0, 1)),
       GrPerspQuad(MakeLTRB(0, 0, 2, 4), MakeMatrix(3, -4, 1, 4, 3, 0, 1)),
       MakeCorners(<<3, 0>>, <<0, 4>>, <<9, 0>>, <<12, 4>>),
       MakeCorners(<<9, 0>>, <<12, 4>>, <<3, 0>>, <<0, 4>>),
       GrPerspQuad(MakeLTRB(0, 0, 4, 4), MakeMatrix(1, 3, 0, 0, 4, 0, 1)) >>

\* The texture rects (u, v in fractions of the texture) handed along for
\* outsetting.
TexRectTable == << MakeLTRB(RInt(0), RInt(0), RInt(1), RInt(1)),
                   MakeLTRB(Rat(1, 4), Rat(1, 2), Rat(3, 4), RInt(1)) >>

\* The trapezoid before the divide: its upper corners are twice as far.
PerspQuad ==
    << [x |-> 6, y |-> 0, w |-> 2], [x |-> 0, y |-> 4, w |-> 1],
       [x |-> 18, y |-> 0, w |-> 2], [x |-> 12, y |-> 4, w |-> 1] >>

TessQuadTable == Append(QuadTable, PerspQuad)

\* Source rects (half texels): 2 x 2 texels, half a texel wide, one texel wide.
SrcRectTable == << MakeLTRB(0, 0, 4, 4), MakeLTRB(1, 1, 2, 8), MakeLTRB(2, 0, 4, 3) >>

\* Width and height of the texture.
TexDimsTable == << << 4, 8 >> >>

\* The edge flags of the tessellated quads: none, one edge of either pass,
\* edges of both passes, all.
TessFlags == { AAFlagsNone, {"L"}, {"T"}, {"R", "B"}, {"L", "T", "R"}, AAFlagsAll }

Layouts == [pos : {"SkPoint", "SkPoint3"}, domain : BOOLEAN, aa : BOOLEAN]

\* A quad as GrPerspQuad(rect, matrix) gives it: with every w 1 only where
\* the matrix has no perspective, and then a parallelogram.
FromRectAndMatrix(q) ==
    (\A i \in Lanes : q[i].w = 1) =>
       /\ q[1].x + q[4].x = q[2].x + q[3].x
       /\ q[1].y + q[4].y = q[2].y + q[3].y

\* The calls tess<Pos, D, AA> may make: the quads are those of the op's
\* entries, and what the handlers and the domain assigner SkASSERT of their
\* arguments holds. The perspective outset is called where its square
\* roots are exact.
TessCalls ==
    { cl \in [fn : {"tessellate_quad"}, V : Layouts, quad : 1..Len(TessQuadTable),
              aaFlags : TessFlags, srcRect : 1..Len(SrcRectTable),
              color : {"red"}, origin : {kTopLeft, kBottomLeft},
              filter : {kNearest, kBilerp, kMipMap}, dims : 1..Len(TexDimsTable),
              domain : BOOLEAN, returned : {FALSE}] :
         /\ FromRectAndMatrix(TessQuadTable[cl.quad])
         /\ cl.V.pos = "SkPoint" => \A i \in Lanes : TessQuadTable[cl.quad][i].w = 1
         /\ ~cl.V.aa => cl.aaFlags \in {AAFlagsNone, AAFlagsAll}
         /\ ~cl.V.domain => ~cl.domain
         /\ cl.V.aa /\ cl.V.pos = "SkPoint3" => PerspExact(TessQuadTable[cl.quad], cl.aaFlags) }

\* TextureOp::tess<Pos, D, AA>, for one quad: iw and ih of the texture's
\* size, then tessellate_quad<Vertex>.
TessellateQuad ==
    /\ call.fn = "tessellate_quad"
    /\ LET iw == Rat(1, TexDimsTable[call.dims][1])
           ih == Rat(1, TexDimsTable[call.dims][2])
           out == tessellate_quad(call.V, TessQuadTable[call.quad], call.aaFlags,
                                  SrcRectTable[call.srcRect], call.color, call.origin,
                                  call.filter, iw, ih, call.domain)
       IN  call' = [fn |-> call.fn, V |-> call.V, quad |-> call.quad,
                    aaFlags |-> call.aaFlags, srcRect |-> call.srcRect,
                    color |-> call.color, origin |-> call.origin, filter |-> call.filter,
                    dims |-> call.dims, domain |-> call.domain,
                    returned |-> TRUE, out |-> out]
    /\ UNCHANGED << ops, refCnt, pendingReads, fNextInChain, pc, last, draws, debugBuild,
                    aborted, flushed >>

EdgeCalls ==
    { [fn |-> "compute_quad_edges_and_outset_vertices",
       quad |-> q, aaFlags |-> f, outsetCorners |-> oc, texRect |-> t, returned |-> FALSE]
      : q \in 1..Len(QuadTable), f \in SUBSET AAFlagsAll, oc \in BOOLEAN,
        t \in 1..Len(TexRectTable) }

\* VertexAAHandler<V, GrAA::kYes, ...>: x, y from the quad, u, v from the
\* texture rect, then compute_quad_edges_and_outset_vertices(aaFlags, &x,
\* &y, &a, &b, &c, outsetCorners, &u, &v).
ComputeEdges ==
    /\ call.fn = "compute_quad_edges_and_outset_vertices"
    /\ LET q == QuadTable[call.quad]
           t == TexRectTable[call.texRect]
           u == << t.fLeft, t.fLeft, t.fRight, t.fRight >>
           v == << t.fTop, t.fBottom, t.fTop, t.fBottom >>
           out == compute_quad_edges_and_outset_vertices(
                      call.aaFlags, QuadX2d(q), QuadY2d(q), call.outsetCorners, u, v)
       IN  call' = [fn |-> call.fn, quad |-> call.quad, aaFlags |-> call.aaFlags,
                    outsetCorners |-> call.outsetCorners, texRect |-> call.texRect,
                    returned |-> TRUE, out |-> out]
    /\ UNCHANGED << ops, refCnt, pendingReads, fNextInChain, pc, last, draws, debugBuild,
                    aborted, flushed >>

\* ------------------------------------------------------------------------
\* onPrepareDraws()
\* ------------------------------------------------------------------------
\* ChainRange<TextureOp>(this): the op and those linked behind it
RECURSIVE ChainRange(_)
ChainRange(o) == IF o = 0 THEN << >> ELSE << o >> \o ChainRange(fNextInChain[o])

\* Mutant: only the groups of the op the function is called on are visited.
ChainMeshes_HeadOnly(chain) ==
    IF chain = << >> THEN << >>
    ELSE [p \in 1..Len(ops[Head(chain)].fProxies) |->
             [op |-> Head(chain), proxy |-> ops[Head(chain)].fProxies[p].fProxy,
              quadCnt |-> ops[Head(chain)].fProxies[p].fQuadCnt,
              q |-> QuadsBefore(ops[Head(chain)].fProxies, p)]]

\* The proxy groups the two loops visit, in their order: one mesh each.
RECURSIVE ChainMeshes(_)
ChainMeshes(chain) ==
    IF chain = << >> THEN << >>
    ELSE [p \in 1..Len(ops[Head(chain)].fProxies) |->
             [op |-> Head(chain), proxy |-> ops[Head(chain)].fProxies[p].fProxy,
              quadCnt |-> ops[Head(chain)].fProxies[p].fQuadCnt,
              q |-> QuadsBefore(ops[Head(chain)].fProxies, p)]]
         \o ChainMeshes(Tail(chain))

\* numTotalQuads after the first loop
RECURSIVE NumTotalQuads(_)
NumTotalQuads(ms) == IF ms = << >> THEN 0 ELSE Head(ms).quadCnt + NumTotalQuads(Tail(ms))

\* Mutant: the AA type of the op that is prepared stands for the chain's.
ChainAAType_HeadOnly(chain) == ops[Head(chain)].fAAType

\* aaType after the first loop: this->aaType(), or kCoverage if an op of
\* the chain has it.
ChainAAType(chain) ==
    IF \E k \in 1..Len(chain) : ops[chain[k]].fAAType = kCoverage
    THEN kCoverage
    ELSE ops[Head(chain)].fAAType

\* sizeof(TextureGeometryProcessor::Vertex<Pos, D, AA>): fPosition, fColor,
\* fTextureCoords, fTextureDomain (an SkRect), fEdges (four SkPoint3)
sizeofVertex(V) ==
    (IF V.pos = "SkPoint" THEN 8 ELSE 12) + 4 + 8
    + (IF V.domain THEN 16 ELSE 0) + (IF V.aa THEN 48 ELSE 0)

TESS_FN_AND_VERTEX_SIZE(Point, Domain, AA) ==
    [fTessFn |-> [pos |-> Point, domain |-> Domain, aa |-> AA],
     fVertexSize |-> sizeofVertex([pos |-> Point, domain |-> Domain, aa |-> AA])]

\* Entry i + 1 is kTessFnsAndVertexSizes[i].
kTessFnsAndVertexSizes ==
    << TESS_FN_AND_VERTEX_SIZE("SkPoint", FALSE, FALSE),
       TESS_FN_AND_VERTEX_SIZE("SkPoint", FALSE, TRUE),
       TESS_FN_AND_VERTEX_SIZE("SkPoint", TRUE, FALSE),
       TESS_FN_AND_VERTEX_SIZE("SkPoint", TRUE, TRUE),
       TESS_FN_AND_VERTEX_SIZE("SkPoint3", FALSE, FALSE),
       TESS_FN_AND_VERTEX_SIZE("SkPoint3", FALSE, TRUE),
       TESS_FN_AND_VERTEX_SIZE("SkPoint3", TRUE, FALSE),
       TESS_FN_AND_VERTEX_SIZE("SkPoint3", TRUE, TRUE) >>

\* Mutant: the bits of coverage and perspective are exchanged.
TessFnIdx_BitsExchanged(coverageAA, domain, persp) ==
    (IF coverageAA THEN 4 ELSE 0) + (IF domain THEN 2 ELSE 0) + (IF persp THEN 1 ELSE 0)

\* tessFnIdx |= coverageAA ? 0x1 : 0x0, ... domain ... 0x2, ... hasPerspective ... 0x4
TessFnIdx(coverageAA, domain, persp) ==
    (IF coverageAA THEN 1 ELSE 0) + (IF domain THEN 2 ELSE 0) + (IF persp THEN 4 ELSE 0)

\* What the target answers during one onPrepareDraws(): instFail is the
\* place among the chain's proxies of the one whose instantiate() fails,
\* vfail that of the mesh at which makeVertexSpaceAtLeast(), if it is
\* called there, returns null (0: none), grant whether it hands out the
\* minimum number of vertices, the fallback number or, where there is one,
\* a number between the two, ifail whether refQuadIndexBuffer() returns
\* null.  At most one of them fails.
TargetAnswers ==
    { e \in [instFail : 0..Cardinality(Ops), vfail : 0..Cardinality(Ops),
             grant : {"min", "between", "fallback"}, ifail : BOOLEAN] :
         /\ e.instFail # 0 => e.vfail = 0 /\ ~e.ifail
         /\ e.vfail # 0 => ~e.ifail
         /\ e.instFail # 0 \/ e.ifail => e.grant = "min" }

\* The SkASSERTs of the first loop that fail, of those the loop reaches
\* before it returns at the proxy that fails to instantiate (failAt, 0 if
\* none does): an op's proxies are tested as they are instantiated, its AA
\* type after them.
ChainAsserts(chain, ms, failAt) ==
    LET first == ops[Head(chain)].fProxies[1].fProxy
        reached(k) == failAt = 0 \/ k < failAt
        lastOf(c) == CHOOSE k \in 1..Len(ms) :
                        ms[k].op = c /\ \A k2 \in 1..Len(ms) : ms[k2].op = c => k2 <= k
    IN  { "proxy->config() == config" :
             k \in { k \in 1..Len(ms) : reached(k) /\ config(ms[k].proxy) # config(first) } }
        \cup
        { "proxy->textureType() == textureType" :
             k \in { k \in 1..Len(ms) :
                        reached(k) /\ textureType(ms[k].proxy) # textureType(first) } }
        \cup
        { "aaType == GrAAType::kCoverage || aaType == GrAAType::kNone" :
             j \in { j \in 1..Len(chain) :
                        /\ reached(lastOf(chain[j]))
                        /\ ops[chain[j]].fAAType = kCoverage
                        /\ ops[Head(chain)].fAAType = kMSAA } }

\* The SkASSERTs that fail in tess<Pos, D, AA> for entries start .. start +
\* cnt - 1 (from 0) of op record 'op': those of the non-AA handlers, of the
\* handlers for 2D positions and of the domain assigner without domain.
TessAsserts(V, op, start, cnt) ==
    LET entries == { op.fQuads[i] : i \in (start + 1)..(start + cnt) }
    IN  { "aaFlags == GrQuadAAFlags::kNone || aaFlags == GrQuadAAFlags::kAll" :
             q \in { q \in entries : ~V.aa /\ q.fAAFlags \notin {AAFlagsNone, AAFlagsAll} } }
        \cup
        { "(quad.w4f() == Sk4f(1.f)).allTrue()" :
             q \in { q \in entries : V.pos = "SkPoint" /\ \E i \in 1..4 : q.fQuad[i].w # 1 } }
        \cup
        { "domain == Domain::kNo" :
             q \in { q \in entries : ~V.domain /\ q.fHasDomain } }

\* Mutant: every mesh is set up as indexed triangles.
MeshPattern_AlwaysIndexed(quadCnt) ==
    [primitiveType |-> "kTriangles", indexed |-> TRUE, indicesPerRepetition |-> 6,
     verticesPerRepetition |-> 4, repeatCount |-> quadCnt]

\* setPrimitiveType and setIndexedPatterned(ibuffer, 6, 4, quadCnt, ...) or
\* setNonIndexedNonInstanced(4): a mesh of quadCnt quads
MeshPattern(quadCnt) ==
    IF quadCnt > 1
    THEN [primitiveType |-> "kTriangles", indexed |-> TRUE, indicesPerRepetition |-> 6,
          verticesPerRepetition |-> 4, repeatCount |-> quadCnt]
    ELSE [primitiveType |-> "kTriangleStrip", indexed |-> FALSE, indicesPerRepetition |-> 0,
          verticesPerRepetition |-> 4, repeatCount |-> 1]

\* Mutant: the vertices a mesh takes are not taken off the allocated ones.
AllocatedAfterMesh_KeepsAll(numAllocatedVertices, meshVertexCnt) == numAllocatedVertices

\* numAllocatedVertices -= meshVertexCnt
AllocatedAfterMesh(numAllocatedVertices, meshVertexCnt) == numAllocatedVertices - meshVertexCnt

\* Mutant: after a failed allocation the loop goes on with the next mesh.
RECURSIVE PrepareMeshes_SkipsMesh(_, _, _, _, _, _, _)
PrepareMeshes_SkipsMesh(ms, m, numAllocatedVertices, numQuadVerticesLeft, tessFnIdx, e, acc) ==
    IF m > Len(ms) THEN acc
    ELSE IF numAllocatedVertices < ms[m].quadCnt * 4 /\ e.vfail = m
    THEN PrepareMeshes_SkipsMesh(ms, m + 1, 0, numQuadVerticesLeft - ms[m].quadCnt * 4,
                                 tessFnIdx, e,
                                 [acc EXCEPT !.log = Append(@, "Could not allocate vertices\n"),
                                             !.failures = Append(@, [op |-> ms[m].op,
                                                                     why |-> "vertices"])])
    ELSE PrepareMeshes_SkipsMesh(ms, m + 1, 0, numQuadVerticesLeft - ms[m].quadCnt * 4,
                                 tessFnIdx, e,
                                 [acc EXCEPT
                                     !.tess = Append(@,
                                         [op |-> ms[m].op, proxy |-> ms[m].proxy,
                                          start |-> ms[m].q, cnt |-> ms[m].quadCnt,
                                          fTessFn |-> kTessFnsAndVertexSizes[tessFnIdx + 1].fTessFn]),
                                     !.meshes = Append(@,
                                         [proxy |-> ms[m].proxy, quadCnt |-> ms[m].quadCnt,
                                          primitiveType |->
                                              IF ms[m].quadCnt > 1
                                              THEN "kTriangles" ELSE "kTriangleStrip"])])

\* The second loop from mesh m on.  acc holds what it has done so far: the
\* calls of the tessellation routine (with the two counters as they are at
\* the call), the meshes set up, what SkDebugf wrote, what the target
\* refused (and for which op's mesh), what it handed out, whether the
\* function has returned early, the SkASSERTs that failed (the first ends
\* the loop) and the two counters as the loop leaves them.
RECURSIVE PrepareMeshes(_, _, _, _, _, _, _)
PrepareMeshes(ms, m, numAllocatedVertices, numQuadVerticesLeft, tessFnIdx, e, acc) ==
    IF m > Len(ms)
    THEN [acc EXCEPT
             !.numQuadVerticesLeft = numQuadVerticesLeft,
             !.numAllocatedVertices = numAllocatedVertices,
             !.asserts = { "!numQuadVerticesLeft" : x \in { x \in {0} : numQuadVerticesLeft # 0 } }
                         \cup { "!numAllocatedVertices" :
                                   x \in { x \in {0} : numAllocatedVertices # 0 } }]
    ELSE WithValue([meshVertexCnt |-> ms[m].quadCnt * 4,
                    allocate |-> numAllocatedVertices < ms[m].quadCnt * 4], LAMBDA c :
         IF c.allocate /\ e.vfail = m
         THEN [acc EXCEPT !.returned = TRUE,
                          !.log = Append(@, "Could not allocate vertices\n"),
                          !.failures = Append(@, [op |-> ms[m].op, why |-> "vertices"])]
         ELSE WithValue([numAllocatedVertices |->
                            IF ~c.allocate THEN numAllocatedVertices
                            ELSE IF e.grant = "min" THEN c.meshVertexCnt
                            ELSE IF e.grant = "between"
                            THEN Min(c.meshVertexCnt + 4, numQuadVerticesLeft)
                            ELSE numQuadVerticesLeft,
                         allocs |-> IF c.allocate THEN Append(acc.allocs, "vertices")
                                    ELSE acc.allocs,
                         fTessFn |-> kTessFnsAndVertexSizes[tessFnIdx + 1].fTessFn],
                        LAMBDA d :
         WithValue([tess |-> Append(acc.tess,
                                [op |-> ms[m].op, proxy |-> ms[m].proxy,
                                 start |-> ms[m].q, cnt |-> ms[m].quadCnt,
                                 fTessFn |-> d.fTessFn,
                                 numAllocatedVertices |-> d.numAllocatedVertices,
                                 numQuadVerticesLeft |-> numQuadVerticesLeft]),
                    asserts |->
                        { "numAllocatedVertices <= numQuadVerticesLeft" :
                             x \in { x \in {0} : /\ c.allocate
                                                  /\ d.numAllocatedVertices > numQuadVerticesLeft } }
                        \cup { "numAllocatedVertices >= meshVertexCnt" :
                                  x \in { x \in {0} : d.numAllocatedVertices < c.meshVertexCnt } }],
                   LAMBDA t :
              IF t.asserts # {}
              THEN [acc EXCEPT !.asserts = t.asserts, !.allocs = d.allocs]
              ELSE IF TessAsserts(d.fTessFn, ops[ms[m].op], ms[m].q, ms[m].quadCnt) # {}
              THEN [acc EXCEPT !.tess = t.tess, !.allocs = d.allocs,
                               !.asserts = TessAsserts(d.fTessFn, ops[ms[m].op], ms[m].q,
                                                       ms[m].quadCnt)]
              ELSE IF ms[m].quadCnt > 1 /\ e.ifail
              THEN [acc EXCEPT !.returned = TRUE, !.tess = t.tess, !.allocs = d.allocs,
                               !.log = Append(@, "Could not allocate quad indices\n"),
                               !.failures = Append(@, [op |-> ms[m].op, why |-> "indices"])]
              ELSE PrepareMeshes(ms, m + 1,
                                 AllocatedAfterMesh(d.numAllocatedVertices, c.meshVertexCnt),
                                 numQuadVerticesLeft - c.meshVertexCnt, tessFnIdx, e,
                                 [acc EXCEPT
                                     !.tess = t.tess,
                                     !.allocs = IF ms[m].quadCnt > 1
                                                THEN Append(d.allocs, "indices") ELSE d.allocs,
                                     !.meshes = Append(@,
                                         [proxy |-> ms[m].proxy, quadCnt |-> ms[m].quadCnt]
                                         @@ MeshPattern(ms[m].quadCnt))]))))

\* The failures of one onPrepareDraws(), with the op it was called on
OfHead(o, failures) == [k \in 1..Len(failures) |-> failures[k] @@ [head |-> o]]

\* The op list has no op in front of o that is yet to be prepared.
NextToPrepare(o) ==
    /\ Live(o)
    /\ ~\E x \in Ops : fNextInChain[x] = o
    /\ o \notin flushed.prepared
    /\ \A x \in Ops : x < o /\ Live(x) /\ (~\E y \in Ops : fNextInChain[y] = x)
                         => x \in flushed.prepared

\* o->onPrepareDraws(target), for the op at the head of a chain (or not
\* chained), with a target that answers e.  An SkASSERT that fails ends the
\* process.
PrepareDraws(o, e) ==
    /\ Running
    /\ NextToPrepare(o)
    /\ LET chain == ChainRange(o)
           ms == ChainMeshes(chain)
           hasPersp == \E k \in 1..Len(chain) : ops[chain[k]].fPerspective
           domain == \E k \in 1..Len(chain) : ops[chain[k]].fDomain
           numProxies == Len(ms)
           numTotalQuads == NumTotalQuads(ms)
           \* the proxy at which instantiate() returns false, 0 if none
           failAt == IF e.instFail \in 1..numProxies THEN e.instFail ELSE 0
           \* what the target hands out between the two loops
           pipelineAllocs ==
               << "gp" >>
               \o (IF numProxies > 1 THEN << "dynamicStateArrays" >> ELSE << >>)
               \o << "fixedDynamicState", "pipeline", "meshes" >>
           aaType == ChainAAType(chain)
           coverageAA == aaType = kCoverage
           tessFnIdx == TessFnIdx(coverageAA, domain, hasPersp)
           drawn(done) ==
               [head |-> o,
                gp |-> [coverageAA |-> coverageAA, perspective |-> hasPersp,
                        domain |-> domain],
                kHWAntialias_Flag |-> (aaType = kMSAA),
                tessFnIdx |-> tessFnIdx,
                vertexSize |-> kTessFnsAndVertexSizes[tessFnIdx + 1].fVertexSize,
                dynamicStateArrays |-> numProxies > 1,
                dynamicTextures |-> IF numProxies > 1
                                    THEN [m \in 1..Len(done.meshes) |-> done.meshes[m].proxy]
                                    ELSE << >>,
                fixedTextures |-> IF numProxies > 1 THEN << >>
                                  ELSE << ops[o].fProxies[1].fProxy >>,
                meshes |-> done.meshes,
                numMeshes |-> numProxies,
                numQuadVerticesLeft |-> done.numQuadVerticesLeft,
                numAllocatedVertices |-> done.numAllocatedVertices]
       IN  IF ChainAsserts(chain, ms, failAt) # {}
           THEN /\ aborted' = TRUE
                /\ flushed' = [flushed EXCEPT !.prepared = @ \cup {o}]
           ELSE IF failAt # 0
           THEN /\ aborted' = aborted
                /\ flushed' =
                      [flushed EXCEPT
                          !.prepared = @ \cup {o},
                          !.failures = Append(@, [head |-> o, op |-> ms[failAt].op,
                                                  why |-> "instantiate"])]
           ELSE \E done \in { PrepareMeshes(ms, 1, 0, numTotalQuads * 4, tessFnIdx, e,
                                             [returned |-> FALSE, tess |-> << >>,
                                              meshes |-> << >>, log |-> << >>,
                                              failures |-> << >>, asserts |-> {},
                                              allocs |-> pipelineAllocs,
                                              numQuadVerticesLeft |-> numTotalQuads * 4,
                                              numAllocatedVertices |-> 0]) } :
                /\ aborted' = (done.asserts # {})
                /\ flushed' =
                      [prepared |-> flushed.prepared \cup {o},
                       tess |-> flushed.tess \o done.tess,
                       draws |-> IF done.returned \/ done.asserts # {} THEN flushed.draws
                                 ELSE Append(flushed.draws, drawn(done)),
                       log |-> flushed.log \o done.log,
                       failures |-> flushed.failures \o OfHead(o, done.failures),
                       allocs |-> flushed.allocs \o done.allocs]
    /\ UNCHANGED << ops, refCnt, pendingReads, fNextInChain, pc, last, draws, debugBuild, call >>

\* ------------------------------------------------------------------------
\* Specifications
\* ------------------------------------------------------------------------
\* Callers that keep to the contract: finalize() at most once per op.
Next ==
    \/ \E o \in LifecycleOps, k \in 1..2 : MakeSingle(o, k)
    \/ \E o \in LifecycleOps, idx \in SetIndexSeqs : MakeSet(o, idx)
    \/ \E o \in Ops : ~ops[o].fFinalized /\ FinalizeEnter(o)
    \/ FinalizeAddPendingRead
    \/ FinalizeUnref
    \/ \E o \in Ops : Destroy(o)
    \/ \E a \in Ops, b \in Ops, caps \in BOOLEAN : Combine(a, b, caps)
    \/ \E a \in Ops, b \in Ops : Chain(a, b)
    \/ Proceed

Spec == Init /\ [][Next]_vars

\* Recording only: up to three ops are constructed, combined and chained.
NextRecord ==
    \/ \E o \in Ops, k \in 1..2 : MakeSingle(o, k)
    \/ \E o \in Ops, idx \in SetIndexSeqs : MakeSet(o, idx)
    \/ \E a \in Ops, b \in Ops, caps \in BOOLEAN : Combine(a, b, caps)
    \/ \E a \in Ops, b \in Ops : Chain(a, b)
    \/ Proceed

SpecRecord == InitRecord /\ [][NextRecord]_vars

\* Construction only: one op is made by either factory, of a set of up to
\* MaxBatch entries, and destroyed.
NextMake ==
    \/ \E k \in 1..2 : MakeSingle(1, k)
    \/ \E idx \in BatchIndexSeqs : MakeSet(1, idx)
    \/ Destroy(1)

SpecMake == Init /\ [][NextMake]_vars

\* The static tessellation functions, called on their own.
InitTess ==
    /\ ops = [o \in Ops |-> BlankOp("unborn")]
    /\ refCnt = [t \in Proxies |-> 0]
    /\ pendingReads = [t \in Proxies |-> 0]
    /\ fNextInChain = [o \in Ops |-> 0]
    /\ pc = Idle
    /\ last = NoResult
    /\ draws = << 1, 1 >>
    /\ debugBuild = TRUE
    /\ aborted = FALSE
    /\ flushed = NoFlush
    /\ call \in EdgeCalls \cup TessCalls

NextTess ==
    \/ ComputeEdges
    \/ TessellateQuad

SpecTess == InitTess /\ [][NextTess]_vars

\* Recording followed by a flush: up to three ops are constructed of draw
\* requests that differ in texture and in perspective, domain or AA type,
\* combined and chained; then each op at the head of a chain is prepared,
\* in the op list's order.
FlushPalettes == { << 1, 18 >>, << 1, 19 >>, << 1, 20 >>, << 6, 19 >> }

InitFlush ==
    /\ ops = [o \in Ops |-> BlankOp("unborn")]
    /\ refCnt = [t \in Proxies |-> 0]
    /\ pendingReads = [t \in Proxies |-> 0]
    /\ fNextInChain = [o \in Ops |-> 0]
    /\ pc = Idle
    /\ last = NoResult
    /\ draws \in FlushPalettes
    /\ debugBuild = TRUE
    /\ aborted = FALSE
    /\ flushed = NoFlush
    /\ call = NoCall

NextFlush ==
    \/ \E o \in Ops, k \in 1..2 : flushed = NoFlush /\ MakeSingle(o, k)
    \/ \E o \in Ops : flushed = NoFlush /\ MakeSet(o, << 1, 2 >>)
    \/ \E a \in Ops, b \in Ops, caps \in BOOLEAN : flushed = NoFlush /\ Combine(a, b, caps)
    \/ \E a \in Ops, b \in Ops : flushed = NoFlush /\ Chain(a, b)
    \/ flushed = NoFlush /\ Proceed
    \/ \E o \in Ops, e \in TargetAnswers : PrepareDraws(o, e)

SpecFlush == InitFlush /\ [][NextFlush]_vars

\* Callers that may also call finalize() on an op that is already finalized.
NextMisuse ==
    \/ Next
    \/ \E o \in Ops :
          /\ ops[o].fFinalized
          /\ \A t \in Proxies : pendingReads[t] + GroupsOn(ops[o], t) <= MaxPendingReads
          /\ FinalizeEnter(o)
    \/ \E o \in Ops : FinalizeAssert(o)

SpecMisuse == InitMisuse /\ [][NextMisuse]_vars

\* ------------------------------------------------------------------------
\* Properties
\* ------------------------------------------------------------------------
\* The proxy groups <<o, g>> of live ops that reference proxy t.
GroupsOfProxy(t) ==
    { og \in Ops \X (1..MaxSetCnt) :
         /\ Live(og[1])
         /\ og[2] \in DOMAIN ops[og[1]].fProxies
         /\ ops[og[1]].fProxies[og[2]].fProxy = t }

\* finalize() has registered the pending read of group g of op o.
Registered(o, g) ==
    /\ ops[o].fFinalized
    /\ pc.op = o => (g < pc.p \/ (g = pc.p /\ pc.i > 1))

\* finalize() has dropped the plain reference of group g of op o.
Dropped(o, g) ==
    /\ ops[o].fFinalized
    /\ pc.op = o => g < pc.p

\* C1: finalize() on an open op turns, group by group, one plain reference
\* on the group's proxy into one pending read, the pending read first: at
\* every step of it each proxy's pending reads are those of the groups
\* already registered, its plain references those of the groups not yet
\* dropped, a group is never dropped before it is registered, and the op
\* is flagged finalized from the first step on.
C1_FinalizeConverts ==
    /\ \A t \in Proxies :
          /\ pendingReads[t] =
                Cardinality({ og \in GroupsOfProxy(t) : Registered(og[1], og[2]) })
          /\ refCnt[t] =
                Cardinality({ og \in GroupsOfProxy(t) : ~Dropped(og[1], og[2]) })
          /\ pendingReads[t] + refCnt[t] >= Cardinality(GroupsOfProxy(t))
    /\ pc.op # 0 => Live(pc.op) /\ ops[pc.op].fFinalized

\* finalize() is half way through the second group of an op: the pending
\* read of that group is registered, its plain reference not yet dropped.
C1_Witness ==
    /\ pc.op # 0 /\ pc.p = 2 /\ pc.i = 2
    /\ pendingReads[ops[pc.op].fProxies[2].fProxy] >= 1
    /\ refCnt[ops[pc.op].fProxies[2].fProxy] >= 1

\* C2: with finalize() called at most once per op, no count is ever
\* negative, between operations every proxy has one plain reference per
\* group of the live ops not finalized and one pending read per group of
\* the live finalized ops (merges change neither), and once every op is
\* destroyed all counts are zero.
C2_ReleaseBalanced ==
    \A t \in Proxies :
       /\ refCnt[t] >= 0
       /\ pendingReads[t] >= 0
       /\ pc = Idle =>
             /\ refCnt[t] =
                   Cardinality({ og \in GroupsOfProxy(t) : ~ops[og[1]].fFinalized })
             /\ pendingReads[t] =
                   Cardinality({ og \in GroupsOfProxy(t) : ops[og[1]].fFinalized })
       /\ (\A o \in Ops : ~Live(o)) => refCnt[t] = 0 /\ pendingReads[t] = 0

\* Both ops of the run were constructed and are destroyed again.
C2_Witness ==
    /\ \A o \in LifecycleOps : ops[o].status = "destroyed"
    /\ \A t \in Proxies : refCnt[t] = 0 /\ pendingReads[t] = 0

\* A call of finalize() on op o, whatever it does.
FinalizeCall(o) == FinalizeEnter(o) \/ FinalizeAssert(o)

\* C3 as stated: finalize() on an op that is already finalized hits the
\* fatal assertion and changes no count of any proxy.
C3_SecondFinalizeAlwaysAsserts ==
    [][\A o \in Ops :
          (ops[o].fFinalized /\ FinalizeCall(o)) =>
              aborted' /\ UNCHANGED << ops, refCnt, pendingReads, pc >>]_vars

\* C3 as amended: in a build with assertions, finalize() on an op that is
\* already finalized hits the fatal assertion and changes no count of any
\* proxy; in a build without them the call is not checked and runs the
\* conversion loop over the op's groups once more.
C3_SecondFinalizeAssertsInDebug ==
    [][\A o \in Ops :
          (ops[o].fFinalized /\ FinalizeCall(o)) =>
              IF debugBuild
              THEN aborted' /\ UNCHANGED << ops, refCnt, pendingReads, pc >>
              ELSE ~aborted' /\ pc' = [op |-> o, p |-> 1, i |-> 1]]_vars

\* The assertion of finalize() has ended a run in which an op was finalized.
C3_Witness ==
    /\ aborted /\ debugBuild
    /\ \E o \in Ops : Live(o) /\ ops[o].fFinalized

\* The step is the call a->combineIfPossible(b, caps) with caps reporting c.
CombineStep(a, b, c) ==
    /\ last'.this = a /\ last'.that = b /\ last'.caps = c
    /\ Combine(a, b, c)

\* Vocabulary of the claims about combine, stated on the ops' fields.
SameTransform(x, y) == XformSteps(x) = XformSteps(y)
SameTransforms(a, b) ==
    /\ SameTransform(ops[a].fTextureColorSpaceXform, ops[b].fTextureColorSpaceXform)
    /\ SameTransform(ops[a].fPaintColorSpaceXform, ops[b].fPaintColorSpaceXform)
SameAAOrNoneAndCoverage(a, b) ==
    \/ ops[a].fAAType = ops[b].fAAType
    \/ {ops[a].fAAType, ops[b].fAAType} = {kNone, kCoverage}
SameFilter(a, b) == ops[a].fFilter = ops[b].fFilter
ChecksPass(a, b) == SameTransforms(a, b) /\ SameAAOrNoneAndCoverage(a, b) /\ SameFilter(a, b)
SingleGroups(a, b) == Len(ops[a].fProxies) = 1 /\ Len(ops[b].fProxies) = 1
SameTexture(a, b) == ops[a].fProxies[1].fProxy = ops[b].fProxies[1].fProxy
SameFormatAndType(a, b) ==
    /\ config(ops[a].fProxies[1].fProxy) = config(ops[b].fProxies[1].fProxy)
    /\ textureType(ops[a].fProxies[1].fProxy) = textureType(ops[b].fProxies[1].fProxy)
RectUnion(r1, r2) ==
    [fLeft |-> IF r1.fLeft < r2.fLeft THEN r1.fLeft ELSE r2.fLeft,
     fTop |-> IF r1.fTop < r2.fTop THEN r1.fTop ELSE r2.fTop,
     fRight |-> IF r1.fRight > r2.fRight THEN r1.fRight ELSE r2.fRight,
     fBottom |-> IF r1.fBottom > r2.fBottom THEN r1.fBottom ELSE r2.fBottom]

\* C4: combining a bilinear op a with a bilinear op b on the same single
\* texture, one of them with AA none and the other with AA coverage, equal
\* transforms, b not chained, returns merged and leaves a with AA coverage
\* and with its own entries, in order, followed by b's entries, in order.
C4_MergeUpgradesAndAppends ==
    [][\A a \in Ops, b \in Ops, c \in BOOLEAN :
          ( /\ CombineStep(a, b, c)
            /\ ops[a].fFilter = kBilerp /\ ops[b].fFilter = kBilerp
            /\ {ops[a].fAAType, ops[b].fAAType} = {kNone, kCoverage}
            /\ SingleGroups(a, b) /\ SameTexture(a, b)
            /\ SameTransforms(a, b)
            /\ ~isChained(b) )
          => /\ last'.result = kMerged
             /\ ops'[a].fAAType = kCoverage
             /\ Len(ops'[a].fQuads) = Len(ops[a].fQuads) + Len(ops[b].fQuads)
             /\ \A i \in 1..Len(ops[a].fQuads) : ops'[a].fQuads[i] = ops[a].fQuads[i]
             /\ \A i \in 1..Len(ops[b].fQuads) :
                   ops'[a].fQuads[Len(ops[a].fQuads) + i] = ops[b].fQuads[i]]_vars

\* A bilinear coverage op has just absorbed a bilinear op with AA none, whose
\* entry, without AA flags, is now its last one.
C4_Witness ==
    /\ last.result = kMerged
    /\ ops[last.this].fFilter = kBilerp /\ ops[last.that].fFilter = kBilerp
    /\ ops[last.this].fAAType = kCoverage /\ ops[last.that].fAAType = kNone
    /\ Len(ops[last.this].fQuads) >= 2
    /\ ops[last.this].fQuads[1].fAAFlags # AAFlagsNone
    /\ ops[last.this].fQuads[Len(ops[last.this].fQuads)].fAAFlags = AAFlagsNone

\* C5: combine returns cannot-combine whenever the texture-side or the
\* paint-side transforms of the two ops differ by value, whatever else
\* holds of the ops.
C5_TransformsMustMatch ==
    [][\A a \in Ops, b \in Ops, c \in BOOLEAN :
          (CombineStep(a, b, c) /\ ~SameTransforms(a, b))
          => last'.result = kCannotCombine]_vars

\* combine has refused two ops that differ in the paint-side transform only
\* and could otherwise have been merged.
C5_Witness ==
    /\ last.result = kCannotCombine
    /\ ~SameTransform(ops[last.this].fPaintColorSpaceXform,
                      ops[last.that].fPaintColorSpaceXform)
    /\ SameTransform(ops[last.this].fTextureColorSpaceXform,
                     ops[last.that].fTextureColorSpaceXform)
    /\ SameFilter(last.this, last.that)
    /\ SameAAOrNoneAndCoverage(last.this, last.that)
    /\ SingleGroups(last.this, last.that) /\ SameTexture(last.this, last.that)

\* C6: combine returns cannot-combine whenever the filters differ or the AA
\* modes differ other than as none and coverage; so what it merges has one
\* filter and is all MSAA or free of MSAA, and so has every chain link.
C6_FilterAndAAMustMatch ==
    /\ [][\A a \in Ops, b \in Ops, c \in BOOLEAN :
             CombineStep(a, b, c) =>
                /\ (~SameFilter(a, b) \/ ~SameAAOrNoneAndCoverage(a, b))
                       => last'.result = kCannotCombine
                /\ last'.result # kCannotCombine
                       => /\ ops[a].fFilter = ops[b].fFilter
                          /\ (ops[a].fAAType = kMSAA) <=> (ops[b].fAAType = kMSAA)]_vars
    /\ [](\A a \in Ops :
             fNextInChain[a] # 0 =>
                /\ ops[a].fFilter = ops[fNextInChain[a]].fFilter
                /\ (ops[a].fAAType = kMSAA) <=> (ops[fNextInChain[a]].fAAType = kMSAA))

\* combine has refused an MSAA op and a coverage op that agree in all else.
C6_Witness ==
    /\ last.result = kCannotCombine
    /\ ops[last.this].fAAType = kMSAA /\ ops[last.that].fAAType = kCoverage
    /\ SameFilter(last.this, last.that)
    /\ SameTransforms(last.this, last.that)
    /\ SingleGroups(last.this, last.that) /\ SameTexture(last.this, last.that)

\* C7: when the transform, AA and filter checks pass, combine merges iff
\* both ops have one proxy group, on the same texture, and the other op is
\* not chained; the merge appends the other op's entries, adds their number
\* to this op's only group, unites the bounds, ORs the perspective and
\* domain flags, and leaves this op with its one group on its texture.
C7_MergeCondition ==
    [][\A a \in Ops, b \in Ops, c \in BOOLEAN :
          (CombineStep(a, b, c) /\ ChecksPass(a, b))
          => LET mergeable == SingleGroups(a, b) /\ SameTexture(a, b) /\ ~isChained(b)
             IN  /\ (last'.result = kMerged) <=> mergeable
                 /\ mergeable =>
                       /\ ops'[a].fQuads = ops[a].fQuads \o ops[b].fQuads
                       /\ Len(ops'[a].fProxies) = 1
                       /\ ops'[a].fProxies[1].fProxy = ops[a].fProxies[1].fProxy
                       /\ ops'[a].fProxies[1].fQuadCnt =
                             ops[a].fProxies[1].fQuadCnt + Len(ops[b].fQuads)
                       /\ ops'[a].fBounds = RectUnion(ops[a].fBounds, ops[b].fBounds)
                       /\ ops'[a].fPerspective = (ops[a].fPerspective \/ ops[b].fPerspective)
                       /\ ops'[a].fDomain = (ops[a].fDomain \/ ops[b].fDomain)]_vars

\* An op has just absorbed an op with other bounds.
C7_Witness ==
    /\ last.result = kMerged
    /\ ops[last.this].fProxies[1].fQuadCnt >= 2
    /\ ops[last.this].fBounds # ops[last.that].fBounds

\* C8: when the checks pass and both ops have one proxy group, on different
\* textures, combine returns may-chain iff the textures share pixel config
\* and texture type and the caps report dynamic texture support, and
\* cannot-combine otherwise; it changes no op.
C8_ChainCondition ==
    [][\A a \in Ops, b \in Ops, c \in BOOLEAN :
          ( /\ CombineStep(a, b, c)
            /\ ChecksPass(a, b)
            /\ SingleGroups(a, b) /\ ~SameTexture(a, b) )
          => /\ last'.result = IF SameFormatAndType(a, b) /\ c
                               THEN kMayChain ELSE kCannotCombine
             /\ ops' = ops]_vars

\* combine has reported may-chain for two single-group ops on different
\* textures.
C8_Witness ==
    /\ last.result = kMayChain
    /\ SingleGroups(last.this, last.that)
    /\ ~SameTexture(last.this, last.that)

\* Some op has more than one proxy group, or the other op is chained.
OtherShape(a, b) ==
    Len(ops[a].fProxies) > 1 \/ Len(ops[b].fProxies) > 1 \/ isChained(b)

\* C9 as stated: combine returns cannot-combine whenever either op has more
\* than one proxy group or the other op is chained.
C9_OtherShapesRefused ==
    [][\A a \in Ops, b \in Ops, c \in BOOLEAN :
          (CombineStep(a, b, c) /\ OtherShape(a, b))
          => last'.result = kCannotCombine]_vars

\* C9 as amended: whenever either op has more than one proxy group or the
\* other op is chained, combine never merges: it returns may-chain if the
\* checks pass, the ops' first textures share pixel config and texture type
\* and the caps report dynamic texture support, and cannot-combine
\* otherwise.
C9_OtherShapesNeverMerged ==
    [][\A a \in Ops, b \in Ops, c \in BOOLEAN :
          (CombineStep(a, b, c) /\ OtherShape(a, b))
          => /\ last'.result = IF ChecksPass(a, b) /\ SameFormatAndType(a, b) /\ c
                               THEN kMayChain ELSE kCannotCombine
             /\ ops' = ops]_vars

\* combine has reported may-chain for an op with two proxy groups.
C9_Witness ==
    /\ last.result = kMayChain
    /\ Len(ops[last.this].fProxies) > 1

\* C10: combine changes nothing of the other op, no reference, pending read
\* or chain link, and, unless it returns merged, nothing of this op.
C10_CombineFrame ==
    [][\A a \in Ops, b \in Ops, c \in BOOLEAN :
          CombineStep(a, b, c)
          => /\ ops'[b] = ops[b]
             /\ UNCHANGED << refCnt, pendingReads, fNextInChain >>
             /\ last'.result # kMerged => ops'[a] = ops[a]]_vars

\* combine has refused a none op and a coverage op on different textures.
C10_Witness ==
    /\ last.result = kCannotCombine
    /\ {ops[last.this].fAAType, ops[last.that].fAAType} = {kNone, kCoverage}
    /\ SameTransforms(last.this, last.that)

\* ------------------------------------------------------------------------
\* Properties of the factories
\* ------------------------------------------------------------------------
\* The step is the construction of op o by the batched factory from the
\* draw requests idx names.
MakeSetStep(o, idx) ==
    /\ ops[o].status = "unborn" /\ ops'[o].status = "live"
    /\ Len(ops'[o].fQuads) = Len(idx)
    /\ \A p \in 1..Len(idx) :
          ops'[o].fQuads[p].fSrcRect = DrawTable[draws[idx[p]]].srcRect
    /\ MakeSet(o, idx)

\* The proxies of a sequence of set entries or of proxy groups.
ProxiesOf(seq) == [p \in 1..Len(seq) |-> seq[p].fProxy]

\* The maximal runs of equal elements of a sequence, as <<element, length>>.
RECURSIVE RunsOf(_)
RunsOf(seq) ==
    IF Len(seq) = 0 THEN << >>
    ELSE LET init == RunsOf(SubSeq(seq, 1, Len(seq) - 1))
             e == seq[Len(seq)]
         IN  IF Len(init) > 0 /\ init[Len(init)][1] = e
             THEN [init EXCEPT ![Len(init)] = << e, @[2] + 1 >>]
             ELSE Append(init, << e, 1 >>)

\* C11 as stated: the batched factory makes one proxy group of every
\* maximal run of consecutive entries on one proxy, with the run's length
\* as its count.
C11_GroupsAreRuns ==
    [][\A o \in Ops, idx \in BatchIndexSeqs :
          MakeSetStep(o, idx) =>
             LET runs == RunsOf(ProxiesOf(SetOf(idx)))
             IN  ops'[o].fProxies =
                    [g \in 1..Len(runs) |-> [fProxy |-> runs[g][1], fQuadCnt |-> runs[g][2]]]]_vars

\* C11 as amended: the batched factory makes one proxy group of every
\* entry of the set, in the set's order and with count 1, also of
\* consecutive entries on one proxy; the number of groups is cnt.
C11_GroupPerEntry ==
    [][\A o \in Ops, idx \in BatchIndexSeqs :
          MakeSetStep(o, idx) =>
             /\ Len(ops'[o].fProxies) = Len(idx)
             /\ \A p \in 1..Len(idx) :
                   /\ ops'[o].fProxies[p].fProxy = SetOf(idx)[p].fProxy
                   /\ ops'[o].fProxies[p].fQuadCnt = 1]_vars

\* An op made of a set on proxies A, A, B: three groups of one entry.
C11_Witness ==
    \E o \in Ops :
       /\ Live(o) /\ Len(ops[o].fProxies) = 3 /\ Len(ops[o].fQuads) = 3
       /\ ops[o].fProxies[1].fProxy = ops[o].fProxies[2].fProxy
       /\ ops[o].fProxies[2].fProxy # ops[o].fProxies[3].fProxy
       /\ \A g \in 1..3 : ops[o].fProxies[g].fQuadCnt = 1

\* C12: the groups the batched factory makes follow the order of the set's
\* entries, and entries on one proxy that are not next to each other never
\* share a group: the groups' proxies name the same runs, in the same order,
\* as the entries' proxies, and a set without two consecutive entries on one
\* proxy (such as A, B, A) gives one group per entry, each of count 1.
C12_RepeatsNotCoalesced ==
    [][\A o \in Ops, idx \in BatchIndexSeqs :
          MakeSetStep(o, idx) =>
             LET inRuns == RunsOf(ProxiesOf(SetOf(idx)))
                 outRuns == RunsOf(ProxiesOf(ops'[o].fProxies))
             IN  /\ Len(outRuns) = Len(inRuns)
                 /\ \A r \in 1..Len(inRuns) : outRuns[r][1] = inRuns[r][1]
                 /\ Len(inRuns) = Len(idx) =>
                       ops'[o].fProxies =
                          [p \in 1..Len(idx) |->
                              [fProxy |-> SetOf(idx)[p].fProxy, fQuadCnt |-> 1]]]_vars

\* An op made of a set on proxies A, B, A: three groups.
C12_Witness ==
    \E o \in Ops :
       /\ Live(o) /\ Len(ops[o].fProxies) = 3
       /\ ops[o].fProxies[1].fProxy = ops[o].fProxies[3].fProxy
       /\ ops[o].fProxies[1].fProxy # ops[o].fProxies[2].fProxy

\* The step is the construction of op o by the single-draw factory from
\* draw request k.
MakeSingleStep(o, k) ==
    /\ ops[o].status = "unborn" /\ ops'[o].status = "live"
    /\ Len(ops'[o].fQuads) = 1
    /\ MakeSingle(o, k)

\* The view matrix m takes the corners of rc to whole pixels.
IntegerAligned(rc, m) ==
    \A i \in 1..4 :
       /\ GrPerspQuad(rc, m)[i].x % 2 = 0
       /\ GrPerspQuad(rc, m)[i].y % 2 = 0

\* The op has AA mode none and none of its entries has an AA flag.
ResolvedToNone(op) ==
    /\ op.fAAType = kNone
    /\ \A q \in 1..Len(op.fQuads) : op.fQuads[q].fAAFlags = {}

\* C13: an op requested with coverage AA, by either factory and with any
\* per-edge flags, under a view matrix that keeps rects rects and takes
\* the corners of every destination rect to whole pixels, is constructed
\* with AA mode none and without AA flags on any entry.
C13_AlignedCoverageResolvesToNone ==
    [][/\ \A o \in Ops, k \in 1..2 :
             LET d == DrawTable[draws[k]]
             IN  ( /\ MakeSingleStep(o, k)
                   /\ d.aaType = kCoverage
                   /\ rectStaysRect(d.viewMatrix)
                   /\ IntegerAligned(d.dstRect, d.viewMatrix) )
                 => ResolvedToNone(ops'[o])
       /\ \A o \in Ops, idx \in BatchIndexSeqs :
             LET d == DrawTable[draws[idx[1]]]
             IN  ( /\ MakeSetStep(o, idx)
                   /\ d.aaType = kCoverage
                   /\ rectStaysRect(d.viewMatrix)
                   /\ \A p \in 1..Len(idx) :
                         IntegerAligned(SetOf(idx)[p].fDstRect, d.viewMatrix) )
                 => ResolvedToNone(ops'[o])]_vars

\* C19: an op's domain flag is the OR of the domain flags of the entries
\* it owns, whichever factory made it and whatever it has absorbed, and a
\* merge leaves its perspective flag the OR of the two ops' perspective
\* flags.
C19_FlagsAreORs ==
    /\ [](\A o \in Ops :
             Live(o) =>
                (ops[o].fDomain <=> \E q \in 1..Len(ops[o].fQuads) : ops[o].fQuads[q].fHasDomain))
    /\ [][\A a \in Ops, b \in Ops, c \in BOOLEAN :
             (CombineStep(a, b, c) /\ last'.result = kMerged) =>
                (ops'[a].fPerspective <=> (ops[a].fPerspective \/ ops[b].fPerspective))]_vars

\* An op without a domain of its own has absorbed an entry that requires
\* one and now has the domain flag, next to an entry that requires none.
C19_Witness ==
    /\ last.result = kMerged
    /\ ops[last.this].fDomain
    /\ ~ops[last.this].fQuads[1].fHasDomain
    /\ ops[last.that].fDomain

\* C20: an op with AA mode none owns only entries without AA flags,
\* whichever factory made it and whatever it has absorbed.
C20_NoneOpsHaveNoAAFlags ==
    \A o \in Ops :
       (Live(o) /\ ops[o].fAAType = kNone) =>
          \A q \in 1..Len(ops[o].fQuads) : ops[o].fQuads[q].fAAFlags = {}

\* ------------------------------------------------------------------------
\* Properties of the tessellation
\* ------------------------------------------------------------------------
\* The edges in the order of the equations, and the corners (tri-strip
\* positions) each edge of the quad runs through.
EdgeOrder == << "L", "B", "T", "R" >>
CornersOfEdge(f) ==
    CASE f = "L" -> {1, 2}
      [] f = "B" -> {2, 4}
      [] f = "T" -> {1, 3}
      [] f = "R" -> {3, 4}

\* Equation j of the returned a, b, c at corner i of the quad as passed in.
EdgeValueAt(j, i) ==
    LET q == QuadTable[call.quad]
    IN  RAdd(RAdd(RMul(call.out.a[j], QuadX2d(q)[i]), RMul(call.out.b[j], QuadY2d(q)[i])),
             call.out.c[j])

\* C14: for a convex quad of either winding and any AA flags, equation j
\* of the outsetter is that of the j-th of the left, bottom, top and right
\* edges: at the two corners of that edge it is exactly 0.5 if the edge's
\* flag is set and exactly 1.5 if it is not, and at the other corners at
\* least that.
C14_EdgeEquationsAtCorners ==
    (call.fn = "compute_quad_edges_and_outset_vertices" /\ call.returned) =>
       \A j \in Lanes, i \in Lanes :
          LET level == IF EdgeOrder[j] \in call.aaFlags THEN Rat(1, 2) ELSE Rat(3, 2)
          IN  IF i \in CornersOfEdge(EdgeOrder[j])
              THEN EdgeValueAt(j, i) = level
              ELSE RLe(level, EdgeValueAt(j, i))

\* The outsetter has returned the equations of the mirrored trapezoid with
\* AA on its left and top edges only.
C14_Witness ==
    /\ call.fn = "compute_quad_edges_and_outset_vertices" /\ call.returned
    /\ call.quad = 6 /\ call.aaFlags = {"L", "T"}
    /\ EdgeValueAt(1, 1) = Rat(1, 2) /\ EdgeValueAt(2, 2) = Rat(3, 2)
    /\ RLt(Rat(3, 2), EdgeValueAt(4, 1))

\* ------------------------------------------------------------------------
\* Tessellation of one entry
\* ------------------------------------------------------------------------
\* tessellate_quad has returned for the layout with 2D positions, no
\* domain and no AA.
PlainCall ==
    /\ call.fn = "tessellate_quad" /\ call.returned
    /\ call.V = [pos |-> "SkPoint", domain |-> FALSE, aa |-> FALSE]

\* The device-space corners of the call's entry, in pixels, in tri-strip order.
CornersOfCall ==
    [i \in Lanes |-> << Rat(TessQuadTable[call.quad][i].x, 2),
                        Rat(TessQuadTable[call.quad][i].y, 2) >>]

\* The corners of the call's source rect divided by the texture's width and
\* height, in tri-strip order (top-left, bottom-left, top-right, bottom-right).
ScaledSrcCorners ==
    LET rc == SrcRectTable[call.srcRect]
        W == TexDimsTable[call.dims][1]
        H == TexDimsTable[call.dims][2]
    IN  << << Rat(rc.fLeft, 2 * W), Rat(rc.fTop, 2 * H) >>,
           << Rat(rc.fLeft, 2 * W), Rat(rc.fBottom, 2 * H) >>,
           << Rat(rc.fRight, 2 * W), Rat(rc.fTop, 2 * H) >>,
           << Rat(rc.fRight, 2 * W), Rat(rc.fBottom, 2 * H) >> >>

\* The same with v replaced by 1 - v
FlippedSrcCorners ==
    [i \in Lanes |-> << ScaledSrcCorners[i][1], RSub(RInt(1), ScaledSrcCorners[i][2]) >>]

PlainVertexFields == {"fPosition", "fTextureCoords", "fColor"}

\* Calling again with the arguments of a returned call leaves the
\* arguments and what was written as they are.
RepeatIsIdentical == PlainCall /\ TessellateQuad => call' = call

\* The statement of C15 as it stands: the texture coordinates are the
\* scaled corners of the source rect whatever the texture's origin.
C15_PlainLayoutPassesThrough ==
    /\ [](PlainCall =>
            \A i \in Lanes :
               /\ DOMAIN call.out[i] = PlainVertexFields
               /\ call.out[i].fPosition = CornersOfCall[i]
               /\ call.out[i].fTextureCoords = ScaledSrcCorners[i])
    /\ [][RepeatIsIdentical]_vars

\* C15: tessellating an entry with the non-AA, non-domain, 2D-position
\* layout writes exactly the entry's 4 device-space corners as positions, in
\* tri-strip order and without outset, and as texture coordinates the 4
\* corners of the source rect scaled by the reciprocal texture dimensions,
\* with v replaced by 1 - v when the texture's origin is bottom-left; the
\* entry is not modified and repeating the call gives identical output.
C15_PlainLayoutPassesThroughFlipped ==
    /\ [](PlainCall =>
            \A i \in Lanes :
               /\ DOMAIN call.out[i] = PlainVertexFields
               /\ call.out[i].fPosition = CornersOfCall[i]
               /\ call.out[i].fTextureCoords =
                     IF call.origin = kBottomLeft
                     THEN FlippedSrcCorners[i]
                     ELSE ScaledSrcCorners[i])
    /\ [][RepeatIsIdentical]_vars

\* The plain layout has been written for the rotated quad drawn from a
\* bottom-left texture: the first vertex holds the quad's first corner and
\* the flipped top-left corner of the source rect.
C15_Witness ==
    /\ PlainCall /\ call.origin = kBottomLeft
    /\ call.quad = 4 /\ call.srcRect = 2 /\ call.aaFlags = AAFlagsAll
    /\ call.out[1].fPosition = << Rat(1, 2), RInt(0) >>
    /\ call.out[1].fTextureCoords = << Rat(1, 8), Rat(15, 16) >>
    /\ call.out[4].fTextureCoords = << Rat(1, 4), Rat(1, 2) >>

\* tessellate_quad has returned for a layout with the domain attribute.
DomainCall == call.fn = "tessellate_quad" /\ call.returned /\ call.V.domain

\* One axis of the clamp under bilinear filtering: lo and hi, in texels.
InsetAxis(lo, hi) ==
    IF RLe(RInt(1), RSub(hi, lo))
    THEN << RAdd(lo, Rat(1, 2)), RSub(hi, Rat(1, 2)) >>
    ELSE << RDiv(RAdd(lo, hi), RInt(2)), RDiv(RAdd(lo, hi), RInt(2)) >>

\* The clamp rect the rule gives for the call's source rect, filter,
\* texture size and origin.
ClampOfCall ==
    LET rc == SrcRectTable[call.srcRect]
        W == RInt(TexDimsTable[call.dims][1])
        H == RInt(TexDimsTable[call.dims][2])
        xs == IF call.filter = kBilerp
              THEN InsetAxis(Rat(rc.fLeft, 2), Rat(rc.fRight, 2))
              ELSE << Rat(rc.fLeft, 2), Rat(rc.fRight, 2) >>
        ys == IF call.filter = kBilerp
              THEN InsetAxis(Rat(rc.fTop, 2), Rat(rc.fBottom, 2))
              ELSE << Rat(rc.fTop, 2), Rat(rc.fBottom, 2) >>
        top == RDiv(ys[1], H)
        bottom == RDiv(ys[2], H)
    IN  IF ~call.domain
        THEN [fLeft |-> RInt(-2), fTop |-> RInt(-2), fRight |-> RInt(2), fBottom |-> RInt(2)]
        ELSE [fLeft |-> RDiv(xs[1], W),
              fTop |-> IF call.origin = kBottomLeft THEN RSub(RInt(1), bottom) ELSE top,
              fRight |-> RDiv(xs[2], W),
              fBottom |-> IF call.origin = kBottomLeft THEN RSub(RInt(1), top) ELSE bottom]

\* C18: the domain clamp written for an entry is the fixed rect (-2, -2, 2,
\* 2) when the entry requires no domain; otherwise it is the sorted source
\* rect, under bilinear filtering inset by half a texel on both sides of
\* each axis at least one texel long and collapsed to the center of each
\* shorter axis, not inset under any other filter, then scaled by the
\* reciprocal texture dimensions and, for a bottom-left origin, with y
\* replaced by 1 - y and top and bottom exchanged; it is never inverted.
C18_DomainClamp ==
    DomainCall =>
       \A i \in Lanes :
          /\ call.out[i].fTextureDomain = ClampOfCall
          /\ RLe(call.out[i].fTextureDomain.fLeft, call.out[i].fTextureDomain.fRight)
          /\ RLe(call.out[i].fTextureDomain.fTop, call.out[i].fTextureDomain.fBottom)

\* The clamp has been written for the source rect half a texel wide and
\* three and a half high, bilinear, in a 4 x 8 texture of bottom-left
\* origin: x collapses to 3/16, y runs from 9/16 to 7/8.
C18_Witness ==
    /\ DomainCall /\ call.domain /\ call.filter = kBilerp
    /\ call.srcRect = 2 /\ call.origin = kBottomLeft
    /\ call.out[3].fTextureDomain =
          [fLeft |-> Rat(3, 16), fTop |-> Rat(9, 16), fRight |-> Rat(3, 16),
           fBottom |-> Rat(7, 8)]

\* ------------------------------------------------------------------------
\* Flush
\* ------------------------------------------------------------------------
\* The ops of the chain that starts at op h, as a set
ChainOf(h) == { ChainRange(h)[k] : k \in 1..Len(ChainRange(h)) }

AnyPerspective(h) == \E c \in ChainOf(h) : ops[c].fPerspective
AnyDomain(h) == \E c \in ChainOf(h) : ops[c].fDomain
AnyCoverage(h) == \E c \in ChainOf(h) : ops[c].fAAType = kCoverage

\* The vertex layout with the attributes the chain that starts at h needs
LayoutFor(h) ==
    [pos |-> IF AnyPerspective(h) THEN "SkPoint3" ELSE "SkPoint",
     domain |-> AnyDomain(h), aa |-> AnyCoverage(h)]

\* Bytes of a vertex: position, color and texture coordinates, then the
\* domain rect and the four edge equations where present
BytesOf(V) ==
    CASE V.pos = "SkPoint" /\ ~V.domain /\ ~V.aa -> 20
      [] V.pos = "SkPoint" /\ ~V.domain /\ V.aa -> 68
      [] V.pos = "SkPoint" /\ V.domain /\ ~V.aa -> 36
      [] V.pos = "SkPoint" /\ V.domain /\ V.aa -> 84
      [] V.pos = "SkPoint3" /\ ~V.domain /\ ~V.aa -> 24
      [] V.pos = "SkPoint3" /\ ~V.domain /\ V.aa -> 72
      [] V.pos = "SkPoint3" /\ V.domain /\ ~V.aa -> 40
      [] V.pos = "SkPoint3" /\ V.domain /\ V.aa -> 88

Bit(n, k) == (n \div (2 ^ k)) % 2 = 1

\* The calls of the tessellation routine made for op c
TessCallsFor(c) == { k \in 1..Len(flushed.tess) : flushed.tess[k].op = c }

\* C16: at flush the vertex layout is chosen once for the chain that starts
\* at the head op: 3D positions iff an op of the chain has the perspective
\* flag, the domain attribute iff one has the domain flag, the coverage
\* attributes iff one has AA type coverage; the dispatch index has bit 0
\* for coverage, bit 1 for domain and bit 2 for perspective and selects the
\* routine and the vertex size of exactly that layout; every call of the
\* tessellation routine for an op of the chain uses that routine, and a
\* chain that is drawn has had every entry of every op tessellated by it.
C16_LayoutChosenOncePerChain ==
    /\ \A h \in flushed.prepared : \A c \in ChainOf(h) : \A k \in TessCallsFor(c) :
          flushed.tess[k].fTessFn = LayoutFor(h)
    /\ \A j \in 1..Len(flushed.draws) :
          LET d == flushed.draws[j]
          IN  /\ Bit(d.tessFnIdx, 0) <=> AnyCoverage(d.head)
              /\ Bit(d.tessFnIdx, 1) <=> AnyDomain(d.head)
              /\ Bit(d.tessFnIdx, 2) <=> AnyPerspective(d.head)
              /\ d.tessFnIdx \in 0..7
              /\ kTessFnsAndVertexSizes[d.tessFnIdx + 1].fTessFn = LayoutFor(d.head)
              /\ d.vertexSize = BytesOf(LayoutFor(d.head))
              /\ d.gp = [coverageAA |-> AnyCoverage(d.head),
                         perspective |-> AnyPerspective(d.head),
                         domain |-> AnyDomain(d.head)]
              /\ \A c \in ChainOf(d.head) : \A i \in 0..(Len(ops[c].fQuads) - 1) :
                    Cardinality({ k \in TessCallsFor(c) :
                                    /\ flushed.tess[k].start <= i
                                    /\ i < flushed.tess[k].start + flushed.tess[k].cnt }) = 1

\* A chain of two ops has been drawn whose head has AA type none and no
\* domain flag and whose second op has AA type coverage and the domain
\* flag: index 3, 84 bytes a vertex, both ops tessellated.
C16_Witness ==
    \E j \in 1..Len(flushed.draws) :
       LET d == flushed.draws[j]
       IN  /\ Len(ChainRange(d.head)) = 2
           /\ ops[d.head].fAAType = kNone /\ ~ops[d.head].fDomain
           /\ d.tessFnIdx = 3 /\ d.vertexSize = 84
           /\ Len(d.meshes) = 2
           /\ \A c \in ChainOf(d.head) : TessCallsFor(c) # {}

\* Op c is part of a draw handed to target->draw().
Drawn(c) == \E j \in 1..Len(flushed.draws) : c \in ChainOf(flushed.draws[j].head)

\* Vertex memory was refused for a mesh of op c.
VerticesRefusedFor(c) ==
    \E k \in 1..Len(flushed.failures) :
       flushed.failures[k].op = c /\ flushed.failures[k].why = "vertices"

\* Something failed while the chain of op c was prepared.
ChainFailed(c) ==
    \E k \in 1..Len(flushed.failures) : c \in ChainOf(flushed.failures[k].head)

\* Every op of the op list has been prepared, by its own onPrepareDraws()
\* or by that of the head of its chain.
FlushDone ==
    /\ flushed.prepared # {}
    /\ \A o \in Ops : Live(o) => \E h \in flushed.prepared : o \in ChainOf(h)

Count(seq, x) == Cardinality({ k \in 1..Len(seq) : seq[k] = x })
CountWhy(why) ==
    Cardinality({ k \in 1..Len(flushed.failures) : flushed.failures[k].why = why })

\* The statement of C17 as it stands: when vertex memory is refused for an
\* op, only that op goes undrawn; the ops chained with it are drawn like
\* every other op of the flush.
C17_OnlyFailingOpSkipped ==
    /\ ~aborted
    /\ CountWhy("vertices") = Count(flushed.log, "Could not allocate vertices\n")
    /\ FlushDone /\ CountWhy("vertices") = Len(flushed.failures) =>
          \A c \in Ops : Live(c) /\ ~VerticesRefusedFor(c) => Drawn(c)

\* The target grants everything.
NoFailure == [instFail |-> 0, vfail |-> 0, grant |-> "min", ifail |-> FALSE]

\* onPrepareDraws() runs on op o after a refusal of vertex memory.
PrepareAfterRefusal(o, e) ==
    /\ CountWhy("vertices") > 0
    /\ o \notin flushed.prepared /\ o \in flushed'.prepared
    /\ PrepareDraws(o, e)

\* C17: if vertex memory cannot be acquired for a mesh while an op and the
\* ops chained with it are prepared, the draw of the whole chain is skipped
\* (ops of the chain whose vertices were already written included); the
\* failure is logged once and does not abort the flush, and the ops outside
\* the chain are prepared as if nothing had failed, and drawn.
C17_WholeChainSkipped ==
    /\ [](/\ ~aborted
          /\ CountWhy("vertices") = Count(flushed.log, "Could not allocate vertices\n")
          /\ \A c \in Ops : Live(c) /\ ChainFailed(c) => ~Drawn(c)
          /\ FlushDone => \A c \in Ops : Live(c) /\ ~ChainFailed(c) => Drawn(c))
    /\ [][\A o \in Ops :
             PrepareAfterRefusal(o, NoFailure) =>
                /\ Len(flushed'.draws) = Len(flushed.draws) + 1
                /\ flushed'.draws[Len(flushed'.draws)].head = o
                /\ flushed'.log = flushed.log
                /\ flushed'.failures = flushed.failures]_vars

\* Op 1 and op 2 are chained and op 3 is on its own; vertex memory was
\* refused for op 2's mesh after op 1 had been tessellated; neither is
\* drawn, op 3 is, and the one message was logged.
C17_Witness ==
    /\ FlushDone /\ ~aborted
    /\ fNextInChain = << 2, 0, 0 >> /\ Live(3)
    /\ flushed.failures = << [head |-> 1, op |-> 2, why |-> "vertices"] >>
    /\ TessCallsFor(1) # {} /\ TessCallsFor(2) = {}
    /\ ~Drawn(1) /\ ~Drawn(2) /\ Drawn(3)
    /\ flushed.log = << "Could not allocate vertices\n" >>

\* ------------------------------------------------------------------------
\* Properties of the proxy groups
\* ------------------------------------------------------------------------
\* The proxy group of op record 'op' whose run holds entry i (from 0)
GroupOfEntry(op, i) ==
    CHOOSE p \in 1..Len(op.fProxies) :
       /\ QuadsBefore(op.fProxies, p) <= i
       /\ i < QuadsBefore(op.fProxies, p) + op.fProxies[p].fQuadCnt

\* C21: the proxy groups of an op partition its entries: every group's
\* count is at least 1, the counts add up to the number of entries, and
\* group p holds the run that starts at the sum of the counts before it;
\* the dump visits every entry once, in order and under the ID of its own
\* group's proxy, and a chain that is drawn has had every entry of every
\* op tessellated by exactly one call, made with its own group's proxy.
C21_GroupsPartitionEntries ==
    /\ \A o \in Ops :
          Live(o) =>
             LET op == ops[o]
                 v == dumpInfo(op)
             IN  /\ \A p \in 1..Len(op.fProxies) : op.fProxies[p].fQuadCnt >= 1
                 /\ QuadsBefore(op.fProxies, Len(op.fProxies) + 1) = Len(op.fQuads)
                 /\ Len(v) = Len(op.fQuads)
                 /\ \A k \in 1..Len(v) :
                       /\ v[k].q = k - 1
                       /\ v[k].proxy = uniqueID(op.fProxies[GroupOfEntry(op, k - 1)].fProxy)
                       /\ v[k].i = k - 1 - QuadsBefore(op.fProxies, GroupOfEntry(op, k - 1))
    /\ \A j \in 1..Len(flushed.draws) :
          \A c \in ChainOf(flushed.draws[j].head) : \A i \in 0..(Len(ops[c].fQuads) - 1) :
             \E k \in TessCallsFor(c) :
                /\ flushed.tess[k].start <= i
                /\ i < flushed.tess[k].start + flushed.tess[k].cnt
                /\ flushed.tess[k].proxy = ops[c].fProxies[GroupOfEntry(ops[c], i)].fProxy
                /\ \A k2 \in TessCallsFor(c) :
                      ( /\ flushed.tess[k2].start <= i
                        /\ i < flushed.tess[k2].start + flushed.tess[k2].cnt ) => k2 = k

\* A drawn chain of an op that absorbed another (one group of two entries)
\* and an op the batched factory made (two groups of one entry each).
C21_Witness ==
    \E j \in 1..Len(flushed.draws) :
       LET d == flushed.draws[j]
       IN  /\ Len(d.meshes) = 3
           /\ d.meshes[1].quadCnt = 2
           /\ Len(ops[d.head].fQuads) = 2 /\ Len(ops[d.head].fProxies) = 1
           /\ Len(ChainRange(d.head)) = 2

\* ------------------------------------------------------------------------
\* Properties of finalized ops
\* ------------------------------------------------------------------------
\* The finalized flag of an op stays set for as long as the op lives.
FinalizedStaysSet ==
    \A o \in Ops : (ops[o].fFinalized /\ ops'[o].status = "live") => ops'[o].fFinalized

\* The statement of C22 as it stands: combine changes nothing of an op on
\* which finalize() has run, and the finalized flag, once set, is never
\* cleared.
C22_FinalizedOpsAcceptNoMerge ==
    /\ [][\A a \in Ops, b \in Ops, c \in BOOLEAN :
             (CombineStep(a, b, c) /\ ops[a].fFinalized) =>
                /\ ops'[a].fQuads = ops[a].fQuads
                /\ ops'[a].fProxies = ops[a].fProxies
                /\ ops'[a].fBounds = ops[a].fBounds
                /\ ops'[a].fAAType = ops[a].fAAType
                /\ ops'[a].fPerspective = ops[a].fPerspective
                /\ ops'[a].fDomain = ops[a].fDomain]_vars
    /\ [][FinalizedStaysSet]_vars

\* C22 as amended: finalize() does not close an op to merges.  combine
\* neither reads nor writes the finalized flag: when the checks pass it
\* merges iff both ops have one proxy group on the same texture and the
\* other op is not chained, whether or not either op has been finalized,
\* and the merge appends the other op's entries and raises the group's
\* count; both ops keep their finalized flag, and the flag, once set, is
\* never cleared while the op lives.
C22_FinalizedOpsStillMerge ==
    /\ [][\A a \in Ops, b \in Ops, c \in BOOLEAN :
             CombineStep(a, b, c) =>
                /\ ops'[a].fFinalized = ops[a].fFinalized
                /\ ops'[b].fFinalized = ops[b].fFinalized
                /\ ChecksPass(a, b) =>
                      LET mergeable == SingleGroups(a, b) /\ SameTexture(a, b) /\ ~isChained(b)
                      IN  /\ (last'.result = kMerged) <=> mergeable
                          /\ mergeable =>
                                /\ ops'[a].fQuads = ops[a].fQuads \o ops[b].fQuads
                                /\ ops'[a].fProxies[1].fQuadCnt =
                                      ops[a].fProxies[1].fQuadCnt + Len(ops[b].fQuads)]_vars
    /\ [][FinalizedStaysSet]_vars

\* An op on which finalize() has run to its end has just absorbed another
\* op and now owns the entries of both.
C22_Witness ==
    /\ last.result = kMerged
    /\ pc = Idle
    /\ ops[last.this].fFinalized
    /\ pendingReads[ops[last.this].fProxies[1].fProxy] >= 1
    /\ Len(ops[last.this].fQuads) = 2

\* ------------------------------------------------------------------------
\* Tessellation of entries without AA
\* ------------------------------------------------------------------------
TessReturned == call.fn = "tessellate_quad" /\ call.returned

\* The corners of the call's entry as positions of the call's layout, in
\* pixels: x and y, and w where the layout has 3D positions
PositionsOfCall ==
    [i \in Lanes |->
        IF call.V.pos = "SkPoint" THEN CornersOfCall[i]
        ELSE << CornersOfCall[i][1], CornersOfCall[i][2], RInt(TessQuadTable[call.quad][i].w) >>]

\* The source rect's corners in the texture's normalized coordinates: scaled
\* by the reciprocal texture size and, for a bottom-left origin, with v
\* counted from the bottom.
NormalizedSrcCorners ==
    [i \in Lanes |->
        IF call.origin = kBottomLeft THEN FlippedSrcCorners[i] ELSE ScaledSrcCorners[i]]

\* Equation j of vertex i of the output at the vertex's own position
CoverageAtOwnPosition(i, j) ==
    LET e == call.out[i].fEdges[j]
        pt == PositionsOfCall[i]
        w == IF call.V.pos = "SkPoint" THEN RInt(1) ELSE pt[3]
    IN  RAdd(RAdd(RMul(e[1], pt[1]), RMul(e[2], pt[2])), RMul(e[3], w))

\* C23: where AA is inactive the geometry passes through.  A layout without
\* coverage (2D or 3D positions) gets the entry's corners as positions, the
\* normalized corners of the source rect as texture coordinates and no
\* edge attribute.  In a layout with coverage an entry without AA flags
\* keeps its corners and normalized source corners, and when all its w are
\* 1 every vertex gets the triple (0, 0, 1) for each of the four edges,
\* which evaluates to 1.
C23_InactiveAAPassesThrough ==
    TessReturned =>
       /\ ~call.V.aa =>
             \A i \in Lanes :
                /\ call.out[i].fPosition = PositionsOfCall[i]
                /\ call.out[i].fTextureCoords = NormalizedSrcCorners[i]
                /\ "fEdges" \notin DOMAIN call.out[i]
       /\ (call.V.aa /\ call.aaFlags = AAFlagsNone) =>
             \A i \in Lanes :
                /\ call.out[i].fPosition = PositionsOfCall[i]
                /\ call.out[i].fTextureCoords = NormalizedSrcCorners[i]
                /\ (\A k \in Lanes : TessQuadTable[call.quad][k].w = 1) =>
                      \A j \in Lanes :
                         /\ call.out[i].fEdges[j] = << RInt(0), RInt(0), RInt(1) >>
                         /\ CoverageAtOwnPosition(i, j) = RInt(1)

\* The layout with coverage and 3D positions has been written for the
\* rotated quad (all w 1) without AA flags: corners, normalized source
\* corners and inert edges.
C23_Witness ==
    /\ TessReturned
    /\ call.V = [pos |-> "SkPoint3", domain |-> FALSE, aa |-> TRUE]
    /\ call.aaFlags = AAFlagsNone /\ call.quad = 4 /\ call.srcRect = 2
    /\ call.origin = kTopLeft
    /\ call.out[1].fPosition = << Rat(1, 2), RInt(0), RInt(1) >>
    /\ call.out[1].fTextureCoords = << Rat(1, 8), Rat(1, 16) >>
    /\ call.out[4].fEdges[3] = << RInt(0), RInt(0), RInt(1) >>

\* ------------------------------------------------------------------------
\* Vertex outset of the 2D layout with coverage
\* ------------------------------------------------------------------------
\* tessellate_quad has returned for a layout with 2D positions and coverage
\* and an entry with AA flags.
OutsetCall ==
    /\ TessReturned
    /\ call.V.aa /\ call.V.pos = "SkPoint"
    /\ call.aaFlags # AAFlagsNone

\* Edge j of the quad runs from corner j to corner EdgeEnd(j); the other
\* edge at corner j is edge EdgeInto(j), which ends there.
EdgeEnd(j) == nextCCW(<< 1, 2, 3, 4 >>)[j]
EdgeInto(j) == nextCW(<< 1, 2, 3, 4 >>)[j]
EdgeFlagged(j) == EdgeOrder[j] \in call.aaFlags

\* Square of the device-space length of edge j, and the length
EdgeLen2(j) ==
    LET a == CornersOfCall[j]
        b == CornersOfCall[EdgeEnd(j)]
    IN  RAdd(RMul(RSub(b[1], a[1]), RSub(b[1], a[1])), RMul(RSub(b[2], a[2]), RSub(b[2], a[2])))
EdgeLen(j) == RSqrt(EdgeLen2(j))

\* (pt - a) x (b - a) for the ends a, b of edge j: zero on the edge's line,
\* of one sign on either side, length times distance in absolute value
CrossOfEdge(pt, j) ==
    LET a == CornersOfCall[j]
        b == CornersOfCall[EdgeEnd(j)]
    IN  RSub(RMul(RSub(pt[1], a[1]), RSub(b[2], a[2])),
             RMul(RSub(pt[2], a[2]), RSub(b[1], a[1])))

\* A corner of the quad that is not on edge j
CornerOffEdge(j) == CHOOSE k \in Lanes : k # j /\ k # EdgeEnd(j)

\* pts[i] moved away from the other end of each edge at corner i, along
\* that edge, by the fraction of the edge that is half a pixel of its
\* device-space length, if the other edge at corner i is flagged
SlidAlongEdges(pts, i) ==
    LET f1 == IF EdgeFlagged(EdgeInto(i)) THEN RDiv(RHalf, EdgeLen(i)) ELSE RInt(0)
        f2 == IF EdgeFlagged(i) THEN RDiv(RHalf, EdgeLen(EdgeInto(i))) ELSE RInt(0)
        n == pts[EdgeEnd(i)]
        pr == pts[EdgeInto(i)]
    IN  << RAdd(pts[i][1], RAdd(RMul(f1, RSub(pts[i][1], n[1])),
                                RMul(f2, RSub(pts[i][1], pr[1])))),
           RAdd(pts[i][2], RAdd(RMul(f1, RSub(pts[i][2], n[2])),
                                RMul(f2, RSub(pts[i][2], pr[2])))) >>

\* C24: the outset of a 2D entry with coverage AA leaves every corner half
\* a pixel outside each of its two edges that has its AA flag, measured
\* across the edge, and on the line of each of its two edges that has
\* not; the texture coordinates move by the same fractions of the edges'
\* texture-space extents as the positions of their device-space lengths.
C24_HalfPixelAcrossEdges ==
    OutsetCall =>
       \A i \in Lanes :
          /\ \A j \in {i, EdgeInto(i)} :
                LET cross == CrossOfEdge(call.out[i].fPosition, j)
                    inside == CrossOfEdge(CornersOfCall[CornerOffEdge(j)], j)
                IN  IF EdgeFlagged(j)
                    THEN /\ RMul(RInt(4), RMul(cross, cross)) = EdgeLen2(j)
                         /\ RLt(RMul(cross, inside), RInt(0))
                    ELSE cross = RInt(0)
          /\ call.out[i].fTextureCoords = SlidAlongEdges(NormalizedSrcCorners, i)

\* What the outset does for any angle between the edges: a corner moves
\* half a pixel along one of its edges, away from the quad, when its other
\* edge has its AA flag; it crosses a flagged edge by half a pixel where the
\* two edges are at a right angle and by less otherwise.
OutsetSlidesAlongEdges ==
    OutsetCall =>
       \A i \in Lanes :
          /\ call.out[i].fPosition = SlidAlongEdges(CornersOfCall, i)
          /\ \A j \in {i, EdgeInto(i)} :
                LET cross == CrossOfEdge(call.out[i].fPosition, j)
                IN  EdgeFlagged(j) => RLe(RMul(RInt(4), RMul(cross, cross)), EdgeLen2(j))

\* ------------------------------------------------------------------------
\* Vertex accounting of the flush
\* ------------------------------------------------------------------------
\* The ProxyGroups of the chain that starts at op h
NumGroups(h) == Len(ChainMeshes(ChainRange(h)))

\* C25: if the allocator, when it succeeds, hands out a number of vertices
\* between the minimum asked for (4 per entry of the group) and the
\* fallback (the vertices still to be written), then at every call of the
\* tessellation routine 0 <= numAllocatedVertices <= numQuadVerticesLeft
\* and numAllocatedVertices covers the group's 4 vertices per entry, the
\* loop of a chain that is drawn ends with both counters at 0 and one mesh
\* per ProxyGroup, and no assertion of the flush fails.
C25_VertexAccounting ==
    /\ ~aborted
    /\ \A k \in 1..Len(flushed.tess) :
          /\ 0 <= flushed.tess[k].numAllocatedVertices
          /\ flushed.tess[k].numAllocatedVertices <= flushed.tess[k].numQuadVerticesLeft
          /\ flushed.tess[k].numAllocatedVertices >= 4 * flushed.tess[k].cnt
    /\ \A j \in 1..Len(flushed.draws) :
          /\ flushed.draws[j].numQuadVerticesLeft = 0
          /\ flushed.draws[j].numAllocatedVertices = 0
          /\ Len(flushed.draws[j].meshes) = NumGroups(flushed.draws[j].head)
          /\ flushed.draws[j].numMeshes = NumGroups(flushed.draws[j].head)

\* A chain of three ProxyGroups is drawn after the allocator handed out more
\* than the first group's minimum and less than the fallback, so that a
\* later group finds too few vertices left over and allocates again
C25_Witness ==
    \E j \in 1..Len(flushed.draws) :
        /\ Len(flushed.draws[j].meshes) >= 3
        /\ \E k \in 1..Len(flushed.tess) :
              /\ flushed.tess[k].op \in ChainOf(flushed.draws[j].head)
              /\ flushed.tess[k].numAllocatedVertices > 4 * flushed.tess[k].cnt
              /\ flushed.tess[k].numAllocatedVertices < flushed.tess[k].numQuadVerticesLeft
        /\ \E k \in 1..Len(flushed.tess) :
              /\ flushed.tess[k].op \in ChainOf(flushed.draws[j].head)
              /\ flushed.tess[k].numAllocatedVertices = 4 * flushed.tess[k].cnt
              /\ flushed.tess[k].numQuadVerticesLeft > 4 * flushed.tess[k].cnt


\* ------------------------------------------------------------------------
\* Homogeneity of chains
\* ------------------------------------------------------------------------
\* The AA types of two ops are both MSAA, or neither is
SameAAClass(a, b) == (ops[a].fAAType = kMSAA) <=> (ops[b].fAAType = kMSAA)

\* C26: any two ops of a chain have the same filter, color space transforms
\* that are equal by value, head textures of the same pixel config and
\* texture type, and AA types that are both MSAA or both among none and
\* coverage; hence none of the assertions the flush makes of a chain (same
\* config, same texture type, coverage joins only none and coverage) fails.
C26_ChainsAreHomogeneous ==
    \A h \in Ops : Live(h) =>
        /\ \A a \in ChainOf(h), b \in ChainOf(h) :
              /\ Live(a) /\ Live(b)
              /\ ops[a].fFilter = ops[b].fFilter
              /\ XformEquals(ops[a].fTextureColorSpaceXform, ops[b].fTextureColorSpaceXform)
              /\ XformEquals(ops[a].fPaintColorSpaceXform, ops[b].fPaintColorSpaceXform)
              /\ config(ops[a].fProxies[1].fProxy) = config(ops[b].fProxies[1].fProxy)
              /\ textureType(ops[a].fProxies[1].fProxy)
                    = textureType(ops[b].fProxies[1].fProxy)
              /\ SameAAClass(a, b)
        /\ ChainAsserts(ChainRange(h), ChainMeshes(ChainRange(h)), 0) = {}

\* Three ops are chained, one of them without AA and one with coverage AA
C26_Witness ==
    \E h \in Ops :
        /\ Live(h)
        /\ Len(ChainRange(h)) = 3
        /\ \E a \in ChainOf(h), b \in ChainOf(h) :
              ops[a].fAAType = kNone /\ ops[b].fAAType = kCoverage


\* ------------------------------------------------------------------------
\* Draws of a flush
\* ------------------------------------------------------------------------
\* The ProxyGroups of the chain that starts at op h, in chain order then
\* group order
RECURSIVE GroupsFrom(_)
GroupsFrom(h) == IF h = 0 THEN << >> ELSE ops[h].fProxies \o GroupsFrom(fNextInChain[h])

\* What one onPrepareDraws() on op o has to show for itself: at most one
\* draw; one exactly if no proxy failed to instantiate and the target
\* refused nothing, and then with a mesh per ProxyGroup of the chain;
\* nothing handed out by the target if a proxy failed to instantiate.
OneFlushOneDraw(o) ==
    LET new == Len(flushed'.draws) - Len(flushed.draws)
        refused == { k \in (Len(flushed.failures) + 1)..Len(flushed'.failures) : TRUE }
        d == flushed'.draws[Len(flushed'.draws)]
    IN  /\ ~aborted'
        /\ new \in {0, 1}
        /\ new = 1 <=> refused = {}
        /\ new = 1 =>
              /\ d.head = o
              /\ d.numMeshes = Len(GroupsFrom(o))
              /\ Len(d.meshes) = Len(GroupsFrom(o))
              /\ \A m \in 1..Len(d.meshes) : d.meshes[m].quadCnt = GroupsFrom(o)[m].fQuadCnt
        /\ (\E k \in refused : flushed'.failures[k].why = "instantiate") =>
              /\ flushed'.allocs = flushed.allocs
              /\ flushed'.tess = flushed.tess
              /\ flushed'.log = flushed.log
        /\ new = 0 => flushed'.draws = flushed.draws
        /\ new = 1 => SubSeq(flushed'.draws, 1, Len(flushed.draws)) = flushed.draws

\* C27: one flush of a head op submits at most one draw.  It submits one,
\* with one mesh per ProxyGroup of every op of the chain, exactly if every
\* texture of the chain instantiates and every allocation of vertices and
\* of indices succeeds.  If a texture fails to instantiate the flush
\* returns before it has the target hand out anything (geometry processor,
\* pipeline, meshes, vertices); if an allocation fails part-way nothing is
\* submitted, the groups already tessellated included.
C27_AtMostOneDrawPerFlush ==
    [][\A o \in Ops : o \in flushed'.prepared /\ o \notin flushed.prepared
                         => OneFlushOneDraw(o)]_vars

\* A chain went undrawn because vertices were refused after one of its
\* groups had been tessellated, another was left at the first texture that
\* did not instantiate or was drawn
C27_Witness ==
    /\ \E k \in 1..Len(flushed.failures) :
          /\ flushed.failures[k].why = "vertices"
          /\ TessCallsFor(flushed.failures[k].head) # {}
          /\ ~Drawn(flushed.failures[k].head)
    /\ \/ \E k \in 1..Len(flushed.failures) : flushed.failures[k].why = "instantiate"
       \/ Len(flushed.draws) > 0


\* C28: in a submitted draw, mesh m is drawn with the texture of the
\* ProxyGroup whose entries it holds: if the chain has more than one
\* ProxyGroup, entry m of the draw's texture array is that group's texture
\* (chain order, then group order); if it has one, the fixed binding is the
\* only texture of the head op.  A group of one entry is a non-indexed
\* triangle strip of 4 vertices, a group of n > 1 entries indexed triangles
\* with 6 indices per 4 vertices, n times over.
C28_MeshesBoundToGroupTextures ==
    \A j \in 1..Len(flushed.draws) :
        LET d == flushed.draws[j]
            groups == GroupsFrom(d.head)
        IN  /\ Len(d.meshes) = Len(groups)
            /\ IF Len(groups) > 1
               THEN /\ d.dynamicStateArrays
                    /\ d.fixedTextures = << >>
                    /\ Len(d.dynamicTextures) = Len(groups)
                    /\ \A m \in 1..Len(groups) : d.dynamicTextures[m] = groups[m].fProxy
               ELSE /\ ~d.dynamicStateArrays
                    /\ d.dynamicTextures = << >>
                    /\ Len(ops[d.head].fProxies) = 1
                    /\ d.fixedTextures = << ops[d.head].fProxies[1].fProxy >>
            /\ \A m \in 1..Len(groups) :
                  IF groups[m].fQuadCnt = 1
                  THEN /\ d.meshes[m].primitiveType = "kTriangleStrip"
                       /\ ~d.meshes[m].indexed
                       /\ d.meshes[m].verticesPerRepetition * d.meshes[m].repeatCount = 4
                  ELSE /\ d.meshes[m].primitiveType = "kTriangles"
                       /\ d.meshes[m].indexed
                       /\ d.meshes[m].indicesPerRepetition = 6
                       /\ d.meshes[m].verticesPerRepetition = 4
                       /\ d.meshes[m].repeatCount = groups[m].fQuadCnt

\* Two draws were submitted: one of a single group of one entry, one of
\* groups on different textures of which one has more than one entry
C28_Witness ==
    /\ \E j \in 1..Len(flushed.draws) :
          /\ Len(flushed.draws[j].meshes) = 1
          /\ flushed.draws[j].meshes[1].quadCnt = 1
    /\ \E j \in 1..Len(flushed.draws) :
          /\ Len(flushed.draws[j].meshes) > 1
          /\ \E m \in 1..Len(flushed.draws[j].meshes) : flushed.draws[j].meshes[m].quadCnt > 1
          /\ \E m \in 1..Len(flushed.draws[j].meshes) :
                flushed.draws[j].dynamicTextures[m] # flushed.draws[j].dynamicTextures[1]


\* ------------------------------------------------------------------------
\* Edge masks under the layouts without coverage
\* ------------------------------------------------------------------------
IsHead(h) == \A x \in Ops : fNextInChain[x] # h

\* The tessellation routine onPrepareDraws() would pick for the chain that
\* starts at h
TessFnFor(h) ==
    kTessFnsAndVertexSizes[TessFnIdx(AnyCoverage(h), AnyDomain(h), AnyPerspective(h)) + 1].fTessFn

\* C29: when the layout chosen for a chain has no coverage (no op of the
\* chain has AA type coverage), every entry of every op of the chain has an
\* edge mask that is empty or all four edges, and every op of AA type MSAA
\* owns only entries with all four edges, whichever factories and merges
\* the ops come from; so the assertion on the mask in the tessellation
\* without AA does not fail.
C29_NoPartialMasksWithoutCoverage ==
    \A h \in Ops : Live(h) /\ IsHead(h) /\ ~AnyCoverage(h) =>
        /\ ~TessFnFor(h).aa
        /\ \A c \in ChainOf(h) : Live(c) =>
              /\ \A i \in 1..Len(ops[c].fQuads) :
                    /\ ops[c].fQuads[i].fAAFlags \in {AAFlagsNone, AAFlagsAll}
                    /\ ops[c].fAAType = kMSAA => ops[c].fQuads[i].fAAFlags = AAFlagsAll
              /\ "aaFlags == GrQuadAAFlags::kNone || aaFlags == GrQuadAAFlags::kAll"
                    \notin TessAsserts(TessFnFor(h), ops[c], 0, Len(ops[c].fQuads))

\* Ops of AA type MSAA are chained, one of them made of a set of more than
\* one entry
C29_Witness ==
    /\ \E h \in Ops :
          /\ Live(h) /\ ~AnyCoverage(h)
          /\ ops[h].fAAType = kMSAA
          /\ Len(ops[h].fQuads) > 1
    /\ \E h \in Ops :
          /\ Live(h) /\ IsHead(h) /\ ~AnyCoverage(h)
          /\ Len(ChainRange(h)) > 1
          /\ \E c \in ChainOf(h) : Len(ops[c].fProxies) > 1

====
